---- MODULE Spec2Model ----
(***************************************************************************)
(* Chunked upload, assembly and cleanup of the NAS FastAPI service         *)
(* (backend/fastapi_app/main.py) with the Django models it relies on       *)
(* (backend/storage/models.py, backend/users/models.py).                   *)
(*                                                                         *)
(* Request handlers are coroutines on one asyncio event loop: control can  *)
(* pass to another handler only at an await.  Every handler is therefore   *)
(* cut into steps at its awaits; pc[p] is the position of handler p.       *)
(* One user and one project are modelled; an upload identity is then the   *)
(* filename.  Time is counted in minutes.                                  *)
(***************************************************************************)
EXTENDS Integers, Sequences, FiniteSets, TLC

\* ---------------------------------------------------------------- bounds
MaxIdx == 2          \* chunk numbers a client sends are 0..MaxIdx
MaxReqs == 4         \* requests started in one behaviour
MaxTicks == 1        \* clock advances in one behaviour
MaxRaceReqs == 4     \* requests started in one behaviour of two interleaving handlers
StorageQuota == 3    \* the storage_quota field of the modelled user, in payload bytes
MaxHeaderLen == 5    \* symbols of a Range header
MaxArtifact == 3     \* bytes of a streamed artifact
MaxGpus == 2         \* devices nvidia-smi reports
MaxEncoded == 3      \* bytes of the output of an encoder
MaxLastReqs == 3     \* requests started after the first chunk of three is in place
MaxSizeReqs == 4     \* requests started in one behaviour with bodies of either length
MaxFailReqs == 4     \* requests started in one behaviour with removals that can fail
MaxTwoReqs == 4      \* requests started in one behaviour on two identities
MaxAgainReqs == 4    \* requests started after the two chunks of one upload are in place
MaxJobs == 3         \* video uploads completed in one behaviour

\* ------------------------------------------------------ program constants
TEMP_CLEANUP_INTERVAL == 30      \* 1800 seconds, in minutes
RetentionMinutes == 1440         \* timedelta(hours=24), in minutes

Procs == {1, 2}
Filenames == {"ab.bin", "a b.bin"}
MainFiles == {"ab.bin"}
Idx == 0..MaxIdx
Totals == {2, 3}
TotalSizes == {3, 4}             \* the total_size form field a client declares
Variants == {1, 2}
MainVariants == {1}

\* the bytes a client sends as chunk n: v bytes that tell the chunk apart
Payload(n, v) == [i \in 1..v |-> 10 * n + v]
TickDeltas == {TEMP_CLEANUP_INTERVAL + 1, RetentionMinutes + 1}

VARIABLES
    now,            \* wall clock, minutes
    chunkRecords,   \* rows of storage_chunkedupload (ChunkedUpload)
    chunkFiles,     \* MEDIA_ROOT/uploads/chunks: [filename, chunk number] -> file
    active_uploads, \* the process-wide dict of sessions, by upload key
    fileTable,      \* rows of the File table, in creation order
    mediaFiles,     \* final files under MEDIA_ROOT, by relative path
    storage_used,   \* User.storage_used as stored in the database
    bgCleanup,      \* cleanup_temp_files tasks queued by BackgroundTasks
    pc,             \* position of each request handler
    req,            \* the request each handler serves
    loc,            \* the handler's local variables
    resp,           \* last response of each handler
    lastDone,       \* per filename: the request that returned last, and its status code
    sent,           \* per filename and chunk number: the accepted uploads since the last
                    \* complete or cancel (how many, capped at 2, and the last one's fields:
                    \* its place among the accepted uploads, its total and its bytes)
    nreqs,
    nticks,
    view,           \* the last request to the stream view and its response
    video,          \* the transcode job: its position, its locals and what it has done
    processing,     \* the last answer of the processing-status endpoint
    executor        \* video_processing_executor: its threads, its queue and the jobs

vars == <<now, chunkRecords, chunkFiles, active_uploads, fileTable, mediaFiles,
          storage_used, bgCleanup, pc, req, loc,
          resp, lastDone, sent, nreqs, nticks, view, video, processing, executor>>

\* ------------------------------------------------------------ value shapes
NoFile == [exists |-> FALSE, data |-> <<>>, ctime |-> 0]
NoSession == [active |-> FALSE, chunks_received |-> {}, total_chunks |-> 0, total_size |-> 0]
NoSent == [times |-> 0, seq |-> 0, total_chunks |-> 0, data |-> <<>>]
NothingSent == [n \in Idx |-> NoSent]
NoSnap == [recs |-> {}, total |-> 0, declared |-> 0, blobs |-> {}, sess |-> NoSession,
           nfiles |-> 0, used |-> 0,
           sent |-> NothingSent]
NoPrev == [op |-> "none", code |-> 0]
NoReq == [op |-> "none", filename |-> "", chunk_number |-> 0, total_chunks |-> 0,
          total_size |-> 0, data |-> <<>>]
NoLoc == [prev |-> NoPrev, user_used |-> 0, chunks |-> <<>>, i |-> 0, merged |-> <<>>,
          pre |-> NoSnap, remove_failed |-> FALSE]
NoResp == [op |-> "none", filename |-> "", chunk_number |-> -1, total_size |-> 0,
           code |-> 0, detail |-> "",
           status |-> "", chunks_received |-> -1, total_chunks |-> -1, uploaded |-> -1,
           missing |-> -1, size |-> -1, path |-> <<>>, merged |-> <<>>, nums |-> <<>>, ids |-> {},
           prev |-> NoPrev, pre |-> NoSnap, post |-> NoSnap, remove_failed |-> FALSE]

NoContentRange == [present |-> FALSE, start |-> 0, end |-> 0, size |-> 0]
NoView == [method |-> "none", has_range |-> FALSE, range_header |-> <<>>, extension |-> "",
           file |-> NoFile, status |-> 0, content_type |-> "", content_length |-> 0,
           content_range |-> NoContentRange, accept_ranges |-> "", body |-> <<>>,
           pc |-> "none", path |-> <<>>]

NoInfo == [ok |-> FALSE, codec |-> "", width |-> 0, height |-> 0]
NoGpuInfo == [available |-> FALSE, gpus |-> <<>>]
NoRow == [name |-> "", size |-> 0, path |-> <<>>, content_type |-> ""]
NoVideo == [pc |-> "none", file_obj |-> NoRow, first_probe |-> NoInfo, info |-> NoInfo,
            gpu_info |-> NoGpuInfo, stable |-> TRUE, estimate |-> 0,
            strategy |-> "", gpu_id |-> -1, encoders |-> <<>>, success |-> FALSE,
            new_size |-> 0,
            pre |-> [row |-> NoRow, used |-> 0, original |-> NoFile]]
NoJob == [pc |-> "none", file_id |-> 0, name |-> "", success |-> FALSE, new_size |-> 0,
          foreign |-> FALSE]
NoExecutor == [threads |-> 0, queue |-> <<>>, jobs |-> [j \in 1..MaxJobs |-> NoJob]]
NoProcessing == [code |-> 0, processing |-> FALSE, content_type |-> "", size |-> 0,
                 in_flight |-> FALSE]

\* ------------------------------------------------------------------ helpers
RECURSIVE SumLen(_)
SumLen(s) == IF s = <<>> THEN 0 ELSE Len(Head(s)) + SumLen(Tail(s))

RECURSIVE Concat(_)
Concat(s) == IF s = <<>> THEN <<>> ELSE Head(s) \o Concat(Tail(s))

\* accepted uploads on record for the chunk numbers 0..n
RECURSIVE SumTimes(_, _)
SumTimes(sn, n) == IF n < 0 THEN 0 ELSE sn[n].times + SumTimes(sn, n - 1)

RECURSIVE SortByChunkNumber(_)
SortByChunkNumber(S) ==
    IF S = {} THEN <<>>
    ELSE LET m == CHOOSE r \in S : \A q \in S : r.chunk_number <= q.chunk_number
         IN  <<m>> \o SortByChunkNumber(S \ {m})

\* the characters of each modelled filename
FilenameChars(f) ==
    CASE f = "ab.bin"  -> <<"a", "b", ".", "b", "i", "n">>
      [] f = "a b.bin" -> <<"a", " ", "b", ".", "b", "i", "n">>
      [] f = "ab.mov"  -> <<"a", "b", ".", "m", "o", "v">>
      [] f = "a b.mov" -> <<"a", " ", "b", ".", "m", "o", "v">>
      [] OTHER -> <<>>

IsAlnum(c) == c \in {"a", "b", "i", "n", "m", "o", "v"}

\* "".join(c for c in filename if c.isalnum() or c in '.-_')
SafeChar(c) == IsAlnum(c) \/ c \in {".", "-", "_"}
SafeFilename(f) == SelectSeq(FilenameChars(f), SafeChar)

\* filename.lower().split('.')[-1]: the characters after the last dot
RECURSIVE AfterLastDot(_)
AfterLastDot(cs) ==
    IF "." \in {cs[i] : i \in 2..Len(cs)} THEN AfterLastDot(Tail(cs)) ELSE Tail(cs)

ExtensionOf(cs) ==
    IF "." \in {cs[i] : i \in 1..Len(cs)} THEN AfterLastDot(cs) ELSE <<>>

\* detect_content_type for the extensions of the modelled names
detect_content_type(f) ==
    IF ExtensionOf(FilenameChars(f)) = <<"m", "o", "v">> THEN "video/quicktime"
    ELSE "application/octet-stream"

\* user_{id}/{project_name}/{safe_filename}: with one user and one project the
\* relative path is determined by the sanitized filename
RelativePath(f) == SafeFilename(f)
Paths == {RelativePath(f) : f \in Filenames}

\* ChunkedUpload.objects.filter(user, project, filename)
RecsOf(f) == {r \in chunkRecords : r.filename = f}

\* get_chunks_for_upload: the rows of the identity, order_by('chunk_number')
get_chunks_for_upload(f) == SortByChunkNumber(RecsOf(f))

\* a space test that forgets what the user already stores
has_storage_space_of_empty_account(used, file_size) == file_size <= StorageQuota

\* User.has_storage_space, evaluated on the request's copy of the user row
has_storage_space(used, file_size) == used + file_size <= StorageQuota

\* what a handler can observe of one identity, for pre/post comparisons
Snapshot(f) ==
    [recs |-> {r.chunk_number : r \in RecsOf(f)},
     total |-> IF RecsOf(f) = {} THEN 0 ELSE get_chunks_for_upload(f)[1].total_chunks,
     declared |-> IF RecsOf(f) = {} THEN 0 ELSE get_chunks_for_upload(f)[1].total_size,
     blobs |-> {n \in Idx : chunkFiles[f, n].exists},
     sess |-> active_uploads[f],
     nfiles |-> Len(fileTable),
     used |-> storage_used,
     sent |-> sent[f]]

AllIdle == \A p \in Procs : pc[p] = "idle"

Init ==
    /\ now = 0
    /\ chunkRecords = {}
    /\ chunkFiles = [k \in Filenames \X Idx |-> NoFile]
    /\ active_uploads = [f \in Filenames |-> NoSession]
    /\ fileTable = <<>>
    /\ mediaFiles = [q \in Paths |-> NoFile]
    /\ storage_used = 0
    /\ bgCleanup = 0
    /\ pc = [p \in Procs |-> "idle"]
    /\ req = [p \in Procs |-> NoReq]
    /\ loc = [p \in Procs |-> NoLoc]
    /\ resp = [p \in Procs |-> NoResp]
    /\ lastDone = [f \in Filenames |-> NoPrev]
    /\ sent = [f \in Filenames |-> NothingSent]
    /\ nreqs = 0
    /\ nticks = 0
    /\ view = NoView
    /\ video = NoVideo
    /\ processing = NoProcessing
    /\ executor = NoExecutor

\* a handler returns: the response is recorded with what it saw before and after
Respond(p, r) ==
    /\ UNCHANGED req
    /\ resp' = [resp EXCEPT ![p] = [r EXCEPT !.op = req[p].op,
                                             !.filename = req[p].filename,
                                             !.chunk_number = req[p].chunk_number,
                                             !.total_size = req[p].total_size,
                                             !.prev = loc[p].prev,
                                             !.pre = loc[p].pre,
                                             !.remove_failed = @ \/ loc[p].remove_failed,
                                             !.post = Snapshot(req[p].filename)']]
    /\ lastDone' = [lastDone EXCEPT ![req[p].filename] = [op |-> req[p].op, code |-> r.code]]
    /\ pc' = [pc EXCEPT ![p] = "idle"]
    /\ loc' = [loc EXCEPT ![p] = NoLoc]

\* a request is received: get_current_user loads the user row
Begin(p, r, next) ==
    /\ pc[p] = "idle"
    /\ nreqs' = nreqs + 1
    /\ req' = [req EXCEPT ![p] = r]
    /\ loc' = [loc EXCEPT ![p] = [NoLoc EXCEPT !.prev = lastDone[r.filename],
                                               !.user_used = storage_used,
                                               !.pre = Snapshot(r.filename)]]
    /\ resp' = [resp EXCEPT ![p] = NoResp]
    /\ UNCHANGED lastDone
    /\ pc' = [pc EXCEPT ![p] = next]

\* ------------------------------------------------- POST /upload/chunk/
\* a restart rule that counts chunks from 1
IsRestartOneBased(chunk_number) == chunk_number = 1

\* chunk_number == 0 is treated as the start of a fresh attempt
IsRestart(chunk_number) == chunk_number = 0

\* the session dict stored under a new upload key
NewSession(total_chunks, total_size) ==
    [active |-> TRUE, chunks_received |-> {}, total_chunks |-> total_chunks,
     total_size |-> total_size]

\* active_uploads[upload_key]['chunks_received'].add(chunk_number)
AddReceived(s, chunk_number) ==
    [s EXCEPT !.chunks_received = @ \cup {chunk_number}]

\* the request arrives; has_storage_space is evaluated on the loaded user row
StartUploadChunk(p, files, nums, totals, variants) ==
    \E f \in files, n \in nums, t \in totals, v \in variants, sz \in TotalSizes :
        Begin(p, [op |-> "upload_chunk", filename |-> f, chunk_number |-> n,
                  total_chunks |-> t, total_size |-> sz, data |-> Payload(n, v)],
              IF ~has_storage_space(storage_used, sz) THEN "u_reject"
              ELSE IF IsRestart(n) THEN "u_cleanup" ELSE "u_open")
        /\ UNCHANGED <<now, chunkRecords, chunkFiles, active_uploads, fileTable, mediaFiles,
                       storage_used, bgCleanup, sent, nticks>>

\* raise HTTPException(400, "Not enough storage space")
UploadReject(p) ==
    /\ pc[p] = "u_reject"
    /\ UNCHANGED <<now, chunkRecords, chunkFiles, active_uploads, fileTable, mediaFiles,
                   storage_used, bgCleanup, sent, nreqs, nticks>>
    /\ Respond(p, [NoResp EXCEPT !.code = 400, !.detail = "Not enough storage space"])

\* a restart that leaves the earlier rows and files in place
UploadCleanupSkipped(p) ==
    /\ pc[p] = "u_cleanup"
    /\ pc' = [pc EXCEPT ![p] = "u_open"]
    /\ UNCHANGED <<now, chunkRecords, chunkFiles, active_uploads, fileTable, mediaFiles,
                   storage_used, bgCleanup, req, loc, resp, lastDone, sent, nreqs, nticks>>

\* await cleanup_existing_chunks(user, project, filename)
UploadCleanup(p) ==
    /\ pc[p] = "u_cleanup"
    /\ LET f == req[p].filename IN
        /\ chunkFiles' = [k \in Filenames \X Idx |->
                            IF \E r \in RecsOf(f) : k = <<f, r.chunk_number>>
                            THEN NoFile ELSE chunkFiles[k]]
        /\ chunkRecords' = chunkRecords \ RecsOf(f)
    /\ pc' = [pc EXCEPT ![p] = "u_open"]
    /\ UNCHANGED <<now, active_uploads, fileTable, mediaFiles, storage_used,
                   bgCleanup, req, loc, resp, lastDone, sent,
                   nreqs, nticks>>

\* del active_uploads[upload_key] on a restart, then aiofiles.open(path, 'wb')
UploadOpen(p) ==
    /\ pc[p] = "u_open"
    /\ LET f == req[p].filename
           n == req[p].chunk_number IN
        /\ active_uploads' = IF IsRestart(n)
                             THEN [active_uploads EXCEPT ![f] = NoSession]
                             ELSE active_uploads
        /\ chunkFiles' = [chunkFiles EXCEPT ![f, n] =
                            [exists |-> TRUE, data |-> <<>>, ctime |-> now]]
    /\ pc' = [pc EXCEPT ![p] = "u_write"]
    /\ UNCHANGED <<now, chunkRecords, fileTable, mediaFiles, storage_used,
                   bgCleanup, req, loc, resp, lastDone, sent,
                   nreqs, nticks>>

\* the read/write loop: the body is streamed into the open file
UploadWrite(p) ==
    /\ pc[p] = "u_write"
    /\ LET f == req[p].filename
           n == req[p].chunk_number IN
        chunkFiles' = IF chunkFiles[f, n].exists
                      THEN [chunkFiles EXCEPT ![f, n] =
                              [exists |-> TRUE, data |-> req[p].data, ctime |-> now]]
                      ELSE chunkFiles
    /\ pc' = [pc EXCEPT ![p] = "u_session"]
    /\ UNCHANGED <<now, chunkRecords, active_uploads, fileTable, mediaFiles, storage_used,
                   bgCleanup, req, loc, resp, lastDone, sent,
                   nreqs, nticks>>

\* if upload_key not in active_uploads: ...; chunks_received.add(chunk_number)
UploadSession(p) ==
    /\ pc[p] = "u_session"
    /\ LET f == req[p].filename
           s == IF active_uploads[f].active THEN active_uploads[f]
                ELSE NewSession(req[p].total_chunks, req[p].total_size) IN
        active_uploads' = [active_uploads EXCEPT ![f] = AddReceived(s, req[p].chunk_number)]
    /\ pc' = [pc EXCEPT ![p] = "u_record"]
    /\ UNCHANGED <<now, chunkRecords, chunkFiles, fileTable, mediaFiles, storage_used,
                   bgCleanup, req, loc, resp, lastDone, sent,
                   nreqs, nticks>>

\* a primary key no row has and no handler still holds
FreshId ==
    LET used == {r.id : r \in chunkRecords} \cup
                {loc[x[1]].chunks[x[2]].id : x \in
                    {y \in Procs \X (1..(MaxIdx + 1)) : y[2] <= Len(loc[y[1]].chunks)}} \cup
                UNION {resp[q].ids : q \in Procs}
    IN  CHOOSE k \in 1..(Cardinality(used) + 1) : k \notin used

\* the rows after create_or_update_chunked_upload_record
create_or_update_chunked_upload_record(id, f, n, t, sz) ==
    IF \E r \in chunkRecords : r.filename = f /\ r.chunk_number = n
    THEN {IF r.filename = f /\ r.chunk_number = n
          THEN [r EXCEPT !.total_chunks = t, !.total_size = sz]
          ELSE r : r \in chunkRecords}
    ELSE chunkRecords \cup {[id |-> id, filename |-> f, chunk_number |-> n,
                             total_chunks |-> t, total_size |-> sz, created_at |-> now]}

UploadRecord(p) ==
    /\ pc[p] = "u_record"
    /\ chunkRecords' = create_or_update_chunked_upload_record(
                           FreshId, req[p].filename, req[p].chunk_number,
                           req[p].total_chunks, req[p].total_size)
    /\ pc' = [pc EXCEPT ![p] = "u_respond"]
    /\ UNCHANGED <<now, chunkFiles, active_uploads, fileTable, mediaFiles, storage_used,
                   bgCleanup, req, loc, resp, lastDone, sent,
                   nreqs, nticks>>

\* chunks_received = len(...); is_complete = chunks_received == total_chunks
IsComplete(chunks_received, total_chunks) == chunks_received = total_chunks

\* the response is built; a lost session is a KeyError, reported as 500
UploadRespond(p) ==
    /\ pc[p] = "u_respond"
    /\ LET f == req[p].filename
           s == active_uploads[f]
           cnt == Cardinality(s.chunks_received)
           done == IsComplete(cnt, req[p].total_chunks) IN
        IF ~s.active
        THEN /\ UNCHANGED <<bgCleanup, sent>>
             /\ UNCHANGED <<now, chunkRecords, chunkFiles, active_uploads, fileTable,
                            mediaFiles, storage_used, nreqs,
                            nticks>>
             /\ Respond(p, [NoResp EXCEPT !.code = 500, !.detail = "Error uploading chunk"])
        ELSE /\ bgCleanup' = IF done THEN bgCleanup + 1 ELSE bgCleanup
             /\ sent' = [sent EXCEPT ![f][req[p].chunk_number] =
                            [times |-> IF @.times < 2 THEN @.times + 1 ELSE 2,
                             seq |-> 1 + SumTimes(sent[f], MaxIdx),
                             total_chunks |-> req[p].total_chunks,
                             data |-> req[p].data]]
             /\ UNCHANGED <<now, chunkRecords, chunkFiles, active_uploads, fileTable,
                            mediaFiles, storage_used, nreqs,
                            nticks>>
             /\ Respond(p, [NoResp EXCEPT !.code = 200,
                                          !.status = IF done THEN "ready_to_merge" ELSE "success",
                                          !.chunks_received = cnt,
                                          !.total_chunks = req[p].total_chunks,
                                          !.size = Len(req[p].data)])

upload_chunk(p) ==
    \/ UploadReject(p)
    \/ UploadCleanup(p)
    \/ UploadOpen(p)
    \/ UploadWrite(p)
    \/ UploadSession(p)
    \/ UploadRecord(p)
    \/ UploadRespond(p)

\* ------------------------------------------------- POST /upload/complete/
StartComplete(p, files) ==
    \E f \in files :
        Begin(p, [NoReq EXCEPT !.op = "complete_upload", !.filename = f], "c_chunks")
        /\ UNCHANGED <<now, chunkRecords, chunkFiles, active_uploads, fileTable, mediaFiles,
                       storage_used, bgCleanup, sent, nticks>>

\* chunks = await get_chunks_for_upload(current_user, project, filename)
CompleteChunks(p) ==
    /\ pc[p] = "c_chunks"
    /\ loc' = [loc EXCEPT ![p].chunks = get_chunks_for_upload(req[p].filename)]
    /\ pc' = [pc EXCEPT ![p] = "c_merge"]
    /\ UNCHANGED <<now, chunkRecords, chunkFiles, active_uploads, fileTable, mediaFiles,
                   storage_used, bgCleanup, req, resp, lastDone,
                   sent, nreqs, nticks>>

\* a completeness test that only rejects a surplus of rows
NotAllUploadedSurplus(chunks) == Len(chunks) > chunks[1].total_chunks

\* len(chunks) != total_chunks, with total_chunks = chunks[0].total_chunks
NotAllUploaded(chunks) == Len(chunks) # chunks[1].total_chunks

\* positions of the fetched rows whose chunk file is not on disk
MissingAt(chunks) ==
    {i \in 1..Len(chunks) : ~chunkFiles[chunks[i].filename, chunks[i].chunk_number].exists}

\* the bytes written to the merged file: the chunk files in the order of the rows
MergeChunks(chunks) ==
    Concat([i \in 1..Len(chunks) |->
              chunkFiles[chunks[i].filename, chunks[i].chunk_number].data])

\* the checks, the merge loop and shutil.move run without an await
CompleteMerge(p) ==
    /\ pc[p] = "c_merge"
    /\ LET f == req[p].filename
           chunks == loc[p].chunks IN
        IF chunks = <<>>
        THEN /\ UNCHANGED <<mediaFiles>>
             /\ UNCHANGED <<now, chunkRecords, chunkFiles, active_uploads, fileTable,
                            storage_used, bgCleanup, sent,
                            nreqs, nticks>>
             /\ Respond(p, [NoResp EXCEPT !.code = 500, !.detail = "No chunks found"])
        ELSE IF NotAllUploaded(chunks)
        THEN /\ UNCHANGED <<mediaFiles>>
             /\ UNCHANGED <<now, chunkRecords, chunkFiles, active_uploads, fileTable,
                            storage_used, bgCleanup, sent,
                            nreqs, nticks>>
             /\ Respond(p, [NoResp EXCEPT !.code = 400,
                                          !.detail = "Not all chunks are uploaded yet",
                                          !.uploaded = Len(chunks),
                                          !.total_chunks = chunks[1].total_chunks])
        ELSE IF MissingAt(chunks) # {}
        THEN /\ UNCHANGED <<mediaFiles>>
             /\ UNCHANGED <<now, chunkRecords, chunkFiles, active_uploads, fileTable,
                            storage_used, bgCleanup, sent,
                            nreqs, nticks>>
             /\ Respond(p, [NoResp EXCEPT
                    !.code = 500, !.detail = "Chunk file missing",
                    !.missing = LET i == CHOOSE i \in MissingAt(chunks) :
                                             \A j \in MissingAt(chunks) : i <= j
                                IN  chunks[i].chunk_number])
        ELSE /\ mediaFiles' = [mediaFiles EXCEPT ![RelativePath(f)] =
                                  [exists |-> TRUE, data |-> MergeChunks(chunks),
                                   ctime |-> now]]
             /\ loc' = [loc EXCEPT ![p].merged = MergeChunks(chunks)]
             /\ pc' = [pc EXCEPT ![p] = "c_create"]
             /\ UNCHANGED <<now, chunkRecords, chunkFiles, active_uploads, fileTable,
                            storage_used, bgCleanup, req, resp,
                            lastDone, sent, nreqs, nticks>>

\* await create_final_file_with_video_processing(...): the File row
CompleteCreate(p) ==
    /\ pc[p] = "c_create"
    /\ fileTable' = Append(fileTable, [name |-> req[p].filename,
                                       size |-> Len(loc[p].merged),
                                       path |-> RelativePath(req[p].filename),
                                       content_type |-> detect_content_type(req[p].filename)])
    /\ pc' = [pc EXCEPT ![p] = "c_storage"]
    /\ UNCHANGED <<now, chunkRecords, chunkFiles, active_uploads, mediaFiles, storage_used,
                   bgCleanup, req, loc, resp, lastDone, sent,
                   nreqs, nticks>>

\* User.update_storage_used on the request's copy of the row, then save
update_storage_used(used, file_size) == used + file_size

\* await update_user_storage(current_user, file_obj.size)
CompleteStorage(p) ==
    /\ pc[p] = "c_storage"
    /\ storage_used' = update_storage_used(loc[p].user_used, Len(loc[p].merged))
    /\ loc' = [loc EXCEPT ![p].i = 1]
    /\ pc' = [pc EXCEPT ![p] = "c_delete"]
    /\ UNCHANGED <<now, chunkRecords, chunkFiles, active_uploads, fileTable, mediaFiles,
                   bgCleanup, req, resp, lastDone, sent,
                   nreqs, nticks>>

\* a turn that removes the chunk file and forgets delete_chunk(chunk)
DeleteChunkFileOnly(p, next) ==
    /\ loc[p].i <= Len(loc[p].chunks)
    /\ LET c == loc[p].chunks[loc[p].i] IN
        chunkFiles' = [chunkFiles EXCEPT ![c.filename, c.chunk_number] = NoFile]
    /\ loc' = [loc EXCEPT ![p].i = @ + 1]
    /\ pc' = [pc EXCEPT ![p] = next]
    /\ UNCHANGED <<now, chunkRecords, active_uploads, fileTable, mediaFiles, storage_used,
                   bgCleanup, req, resp, lastDone, sent, nreqs, nticks>>

\* one turn of: if os.path.exists(chunk.file): os.remove(chunk.file); delete_chunk(chunk)
DeleteChunk(p, next) ==
    /\ loc[p].i <= Len(loc[p].chunks)
    /\ LET c == loc[p].chunks[loc[p].i] IN
        /\ chunkFiles' = [chunkFiles EXCEPT ![c.filename, c.chunk_number] = NoFile]
        /\ chunkRecords' = {r \in chunkRecords : r.id # c.id}
    /\ loc' = [loc EXCEPT ![p].i = @ + 1]
    /\ pc' = [pc EXCEPT ![p] = next]
    /\ UNCHANGED <<now, active_uploads, fileTable, mediaFiles, storage_used,
                   bgCleanup, req, resp, lastDone, sent,
                   nreqs, nticks>>

CompleteDelete(p) ==
    /\ pc[p] = "c_delete"
    /\ DeleteChunk(p, "c_delete")

\* del active_uploads[upload_key]; return the metadata of the new file
CompleteFinish(p) ==
    /\ pc[p] = "c_delete"
    /\ loc[p].i > Len(loc[p].chunks)
    /\ active_uploads' = [active_uploads EXCEPT ![req[p].filename] = NoSession]
    /\ sent' = [sent EXCEPT ![req[p].filename] = NothingSent]
    /\ UNCHANGED <<now, chunkRecords, chunkFiles, fileTable, mediaFiles, storage_used,
                   bgCleanup, nreqs, nticks>>
    /\ Respond(p, [NoResp EXCEPT !.code = 200,
                                 !.size = Len(loc[p].merged),
                                 !.merged = loc[p].merged,
                                 !.nums = [i \in 1..Len(loc[p].chunks) |->
                                             loc[p].chunks[i].chunk_number],
                                 !.ids = {loc[p].chunks[i].id : i \in 1..Len(loc[p].chunks)},
                                 !.path = RelativePath(req[p].filename),
                                 !.chunks_received = Len(loc[p].chunks),
                                 !.total_chunks = loc[p].chunks[1].total_chunks])

complete_upload(p) ==
    \/ CompleteChunks(p)
    \/ CompleteMerge(p)
    \/ CompleteCreate(p)
    \/ CompleteStorage(p)
    \/ CompleteDelete(p)
    \/ CompleteFinish(p)

\* ------------------------------------ DELETE /upload/cancel/{project_id}/{filename}
StartCancel(p, files) ==
    \E f \in files :
        Begin(p, [NoReq EXCEPT !.op = "cancel_upload", !.filename = f], "x_chunks")
        /\ UNCHANGED <<now, chunkRecords, chunkFiles, active_uploads, fileTable, mediaFiles,
                       storage_used, bgCleanup, sent, nticks>>

\* chunks = await get_chunks_for_upload(current_user, project, filename)
CancelChunks(p) ==
    /\ pc[p] = "x_chunks"
    /\ loc' = [loc EXCEPT ![p].chunks = get_chunks_for_upload(req[p].filename),
                          ![p].i = 1]
    /\ pc' = [pc EXCEPT ![p] = "x_delete"]
    /\ UNCHANGED <<now, chunkRecords, chunkFiles, active_uploads, fileTable, mediaFiles,
                   storage_used, bgCleanup, req, resp, lastDone,
                   sent, nreqs, nticks>>

CancelDelete(p) ==
    /\ pc[p] = "x_delete"
    /\ DeleteChunk(p, "x_delete")

\* del active_uploads[upload_key]; "Upload cancelled successfully"
CancelFinish(p) ==
    /\ pc[p] = "x_delete"
    /\ loc[p].i > Len(loc[p].chunks)
    /\ active_uploads' = [active_uploads EXCEPT ![req[p].filename] = NoSession]
    /\ sent' = [sent EXCEPT ![req[p].filename] = NothingSent]
    /\ UNCHANGED <<now, chunkRecords, chunkFiles, fileTable, mediaFiles, storage_used,
                   bgCleanup, nreqs, nticks>>
    /\ Respond(p, [NoResp EXCEPT !.code = 200, !.detail = "Upload cancelled successfully"])

cancel_upload(p) ==
    \/ CancelChunks(p)
    \/ CancelDelete(p)
    \/ CancelFinish(p)

\* --------------------------------------- removals of chunk files that fail
\* cleanup_existing_chunks when os.remove raises OSError for some of the files:
\* the error is passed over, the files stay and the rows are deleted
UploadCleanupFails(p) ==
    /\ pc[p] = "u_cleanup"
    /\ LET f == req[p].filename
           present == {r.chunk_number : r \in {x \in RecsOf(f) :
                                                 chunkFiles[f, x.chunk_number].exists}} IN
        \E failing \in SUBSET present :
            /\ failing # {}
            /\ chunkFiles' = [k \in Filenames \X Idx |->
                                IF /\ \E r \in RecsOf(f) : k = <<f, r.chunk_number>>
                                   /\ k[2] \notin failing
                                THEN NoFile ELSE chunkFiles[k]]
    /\ chunkRecords' = chunkRecords \ RecsOf(req[p].filename)
    /\ loc' = [loc EXCEPT ![p].remove_failed = TRUE]
    /\ pc' = [pc EXCEPT ![p] = "u_open"]
    /\ UNCHANGED <<now, active_uploads, fileTable, mediaFiles, storage_used,
                   bgCleanup, req, resp, lastDone, sent, nreqs, nticks>>

\* the chunk file the loop of handler p is about to remove exists
RemovalDue(p) ==
    /\ loc[p].i <= Len(loc[p].chunks)
    /\ LET c == loc[p].chunks[loc[p].i] IN chunkFiles[c.filename, c.chunk_number].exists

\* complete_upload when os.remove(chunk_path) raises: the exception leaves the
\* loop and becomes HTTPException(500, "Error completing upload: ...")
CompleteDeleteFails(p) ==
    /\ pc[p] = "c_delete"
    /\ RemovalDue(p)
    /\ UNCHANGED <<now, chunkRecords, chunkFiles, active_uploads, fileTable, mediaFiles,
                   storage_used, bgCleanup, sent, nreqs, nticks>>
    /\ Respond(p, [NoResp EXCEPT !.code = 500, !.detail = "Error completing upload",
                                 !.remove_failed = TRUE])

\* cancel_upload when os.remove(chunk.file) raises: nothing catches the
\* exception and the request ends as a 500
CancelDeleteFails(p) ==
    /\ pc[p] = "x_delete"
    /\ RemovalDue(p)
    /\ UNCHANGED <<now, chunkRecords, chunkFiles, active_uploads, fileTable, mediaFiles,
                   storage_used, bgCleanup, sent, nreqs, nticks>>
    /\ Respond(p, [NoResp EXCEPT !.code = 500, !.detail = "Internal Server Error",
                                 !.remove_failed = TRUE])

\* ------------------------------------ GET /upload/status/{project_id}/{filename}
StartStatus(p, files) ==
    \E f \in files :
        Begin(p, [NoReq EXCEPT !.op = "get_upload_status", !.filename = f], "s_check")
        /\ UNCHANGED <<now, chunkRecords, chunkFiles, active_uploads, fileTable, mediaFiles,
                       storage_used, bgCleanup, sent, nticks>>

\* Without a session the handler tests the truth of the QuerySet that
\* filter_chunks_by_upload returned unevaluated, so the query runs on the event
\* loop thread; Django refuses that with SynchronousOnlyOperation unless
\* DJANGO_ALLOW_ASYNC_UNSAFE is set in the environment of the deployment, and the
\* request ends as a 500.  Both deployments are covered.
get_upload_status(p) ==
    /\ pc[p] = "s_check"
    /\ UNCHANGED <<now, chunkRecords, chunkFiles, active_uploads, fileTable, mediaFiles,
                   storage_used, bgCleanup, sent, nreqs, nticks>>
    /\ \E allowAsyncUnsafe \in BOOLEAN :
       LET f == req[p].filename
           s == active_uploads[f] IN
        IF s.active
        THEN Respond(p, [NoResp EXCEPT !.code = 200, !.status = "in_progress",
                                       !.chunks_received = Cardinality(s.chunks_received),
                                       !.total_chunks = s.total_chunks])
        ELSE IF ~allowAsyncUnsafe
        THEN Respond(p, [NoResp EXCEPT !.code = 500, !.detail = "SynchronousOnlyOperation"])
        ELSE IF RecsOf(f) = {}
        THEN Respond(p, [NoResp EXCEPT !.code = 404, !.detail = "Upload not found"])
        ELSE \E r \in RecsOf(f) :
               Respond(p, [NoResp EXCEPT !.code = 200, !.status = "unknown",
                                         !.chunks_received = Cardinality(RecsOf(f)),
                                         !.total_chunks = r.total_chunks])

\* ------------------------------------------------------- time and sweeps
Tick ==
    /\ nticks < MaxTicks
    /\ \E d \in TickDeltas : now' = now + d
    /\ nticks' = nticks + 1
    /\ UNCHANGED <<chunkRecords, chunkFiles, active_uploads, fileTable, mediaFiles,
                   storage_used, bgCleanup, pc, req, loc, resp,
                   lastDone, sent, nreqs>>

\* file_age > TEMP_CLEANUP_INTERVAL, with file_age = time.time() - getctime
TempFileExpired(file) == now - file.ctime > TEMP_CLEANUP_INTERVAL

\* cleanup_temp_files: every regular file of the chunk directory that is old enough
cleanup_temp_files ==
    chunkFiles' = [k \in Filenames \X Idx |->
                     IF chunkFiles[k].exists /\ TempFileExpired(chunkFiles[k])
                     THEN NoFile ELSE chunkFiles[k]]

\* created_at__lt = timezone.now() - timedelta(hours=24)
RecordExpired(r) == r.created_at < now - RetentionMinutes

\* cleanup_old_uploads: the files of the old rows, then the rows
cleanup_old_uploads ==
    /\ chunkFiles' = [k \in Filenames \X Idx |->
                        IF \E r \in chunkRecords :
                              RecordExpired(r) /\ k = <<r.filename, r.chunk_number>>
                        THEN NoFile ELSE chunkFiles[k]]
    /\ chunkRecords' = {r \in chunkRecords : ~RecordExpired(r)}

\* periodic_cleanup: deleted = await cleanup_old_uploads()
PeriodicOld ==
    /\ cleanup_old_uploads
    /\ UNCHANGED <<now, active_uploads, fileTable, mediaFiles, storage_used,
                   bgCleanup, pc, req, loc, resp, lastDone, sent, nreqs,
                   nticks>>

\* periodic_cleanup: await cleanup_temp_files(), then asyncio.sleep(3600)
PeriodicTemp ==
    /\ cleanup_temp_files
    /\ UNCHANGED <<now, chunkRecords, active_uploads, fileTable, mediaFiles, storage_used,
                   bgCleanup, pc, req, loc, resp, lastDone, sent, nreqs,
                   nticks>>

\* background_tasks.add_task(cleanup_temp_files), run after the response is sent
BackgroundCleanup ==
    /\ bgCleanup > 0
    /\ cleanup_temp_files
    /\ bgCleanup' = bgCleanup - 1
    /\ UNCHANGED <<now, chunkRecords, active_uploads, fileTable, mediaFiles, storage_used,
                   pc, req, loc, resp, lastDone, sent, nreqs,
                   nticks>>

\* the server process is started again while no request is being served: the
\* module is loaded anew, so active_uploads is empty and queued tasks are gone;
\* the database and the disk keep what they had
ProcessRestart ==
    /\ active_uploads' = [f \in Filenames |-> NoSession]
    /\ bgCleanup' = 0
    /\ UNCHANGED <<now, chunkRecords, chunkFiles, fileTable, mediaFiles, storage_used,
                   pc, req, loc, resp, lastDone, sent, nreqs, nticks>>

\* ------------------------------- GET|HEAD /video/{pk}/stream/ (media_preview)
\* A Range header is a sequence of symbols: the literal "bytes=", decimal
\* digits, "-" and "x" for any other character.
Digits == {"0", "1", "2"}
RangeSymbols == {"bytes=", "-", "x"} \cup Digits
RangeHeaders == UNION {[1..n -> RangeSymbols] : n \in 0..MaxHeaderLen}
Extensions == {".webm", ".bin"}
Methods == {"GET", "HEAD"}

\* the artifact on disk: n bytes that tell their offsets apart
ArtifactBytes(n) == [i \in 1..n |-> 100 + i]
Artifacts == {NoFile} \cup
             {[exists |-> TRUE, data |-> ArtifactBytes(n), ctime |-> 0] : n \in 0..MaxArtifact}

DigitValue(c) == CASE c = "0" -> 0 [] c = "1" -> 1 [] c = "2" -> 2 [] OTHER -> 0

\* int(group): the decimal value of a run of digits
RECURSIVE ParseInt(_)
ParseInt(ds) ==
    IF ds = <<>> THEN 0
    ELSE 10 * ParseInt(SubSeq(ds, 1, Len(ds) - 1)) + DigitValue(ds[Len(ds)])

\* the length of the longest run of digits of h that starts at position i
RECURSIVE DigitRun(_, _)
DigitRun(h, i) ==
    IF i <= Len(h) /\ h[i] \in Digits THEN 1 + DigitRun(h, i + 1) ELSE 0

\* r'bytes=(\d+)-(\d*)' matches at position i of h
RangeMatchesAt(h, i) ==
    /\ h[i] = "bytes="
    /\ DigitRun(h, i + 1) >= 1
    /\ i + 1 + DigitRun(h, i + 1) <= Len(h)
    /\ h[i + 1 + DigitRun(h, i + 1)] = "-"

\* re.search: the leftmost match, with its two groups, or no match
range_match(h) ==
    LET at == {i \in 1..Len(h) : RangeMatchesAt(h, i)} IN
    IF at = {} THEN [matched |-> FALSE, group1 |-> <<>>, group2 |-> <<>>]
    ELSE LET i == CHOOSE i \in at : \A j \in at : i <= j
             dash == i + 1 + DigitRun(h, i + 1)
         IN  [matched |-> TRUE,
              group1 |-> SubSeq(h, i + 1, dash - 1),
              group2 |-> SubSeq(h, dash + 1, dash + DigitRun(h, dash + 1))]

\* get_optimal_content_type, by the extension of the file name
get_optimal_content_type(extension) ==
    IF extension = ".webm" THEN "video/webm" ELSE "video/mp4"

\* an end that may name the byte after the last one
ClampEndToSize(end, file_size) == IF end < file_size THEN end ELSE file_size

\* end = min(end, file_size - 1)
ClampEnd(end, file_size) == IF end < file_size - 1 THEN end ELSE file_size - 1

\* what file_iterator yields after f.seek(start): the bytes start..end that the
\* file has, none when remaining = end - start + 1 is not positive
RangeBody(data, start, end) ==
    IF end - start + 1 <= 0 \/ start >= Len(data) THEN <<>>
    ELSE SubSeq(data, start + 1, IF end + 1 < Len(data) THEN end + 1 ELSE Len(data))

\* a whole-file answer that stops after the first byte
FullResponseFirstByte(data, content_type) ==
    [status |-> 200, content_type |-> content_type, content_length |-> Len(data),
     content_range |-> NoContentRange, accept_ranges |-> "bytes",
     body |-> IF data = <<>> THEN <<>> ELSE <<data[1]>>]

\* no Range header: StreamingHttpResponse over the whole file
FullResponse(data, content_type) ==
    [status |-> 200, content_type |-> content_type, content_length |-> Len(data),
     content_range |-> NoContentRange, accept_ranges |-> "bytes", body |-> data]

\* raise Http404(...)
Http404 ==
    [status |-> 404, content_type |-> "text/html", content_length |-> 0,
     content_range |-> NoContentRange, accept_ranges |-> "", body |-> <<>>]

\* create_streaming_response(file_path, content_type, range_header)
create_streaming_response(data, content_type, has_range, range_header) ==
    LET file_size == Len(data) IN
    IF has_range /\ range_header # <<>>
    THEN LET m == range_match(range_header) IN
         IF m.matched
         THEN LET start == ParseInt(m.group1)
                  end == ClampEnd(IF m.group2 # <<>> THEN ParseInt(m.group2)
                                  ELSE file_size - 1, file_size)
              IN  [status |-> 206, content_type |-> content_type,
                   content_length |-> end - start + 1,
                   content_range |-> [present |-> TRUE, start |-> start, end |-> end,
                                      size |-> file_size],
                   accept_ranges |-> "bytes",
                   body |-> RangeBody(data, start, end)]
         ELSE Http404
    ELSE FullResponse(data, content_type)

\* the HEAD branch of stream: headers only
HeadResponse(data, content_type) ==
    [status |-> 200, content_type |-> content_type, content_length |-> Len(data),
     content_range |-> NoContentRange, accept_ranges |-> "bytes", body |-> <<>>]

\* a request reaches the view: method, Range header or none, and the file it names
StreamRequest ==
    /\ view.method = "none"
    /\ \E method \in Methods, has_range \in BOOLEAN, h \in RangeHeaders,
          extension \in Extensions, file \in Artifacts :
        /\ has_range \/ h = <<>>
        /\ view' = [NoView EXCEPT !.method = method, !.has_range = has_range,
                                  !.range_header = h, !.extension = extension,
                                  !.file = file]
    /\ UNCHANGED <<now, chunkRecords, chunkFiles, active_uploads, fileTable, mediaFiles,
                   storage_used, bgCleanup, pc, req, loc, resp, lastDone, sent, nreqs,
                   nticks>>

\* VideoStreamingViewSet.stream for GET and HEAD; every exception raised on the
\* way, Http404 included, leaves the view as Http404("Stream failed")
stream ==
    /\ view.method # "none"
    /\ view.status = 0
    /\ LET content_type == get_optimal_content_type(view.extension)
           r == IF ~view.file.exists THEN Http404
                ELSE IF view.method = "HEAD" THEN HeadResponse(view.file.data, content_type)
                ELSE create_streaming_response(view.file.data, content_type,
                                               view.has_range, view.range_header)
       IN  view' = [view EXCEPT !.status = r.status, !.content_type = r.content_type,
                                !.content_length = r.content_length,
                                !.content_range = r.content_range,
                                !.accept_ranges = r.accept_ranges, !.body = r.body]
    /\ UNCHANGED <<now, chunkRecords, chunkFiles, active_uploads, fileTable, mediaFiles,
                   storage_used, bgCleanup, pc, req, loc, resp, lastDone, sent, nreqs,
                   nticks>>

\* ----------------------- process_video_background and VideoProcessor.process_video
VideoNames == {"ab.mov", "a b.mov"}
OriginalBytes == <<7, 8>>
EncodedBytes(n) == [i \in 1..n |-> 264]

\* GPUMonitor.should_use_gpu(gpu_threshold_util=80, vram_threshold=85)
gpu_threshold_util == 80
vram_threshold == 85

\* what ffprobe can report of a file: nothing, or the codec and the frame size of
\* its first video stream
Resolutions == {<<1920, 1080>>, <<2560, 1440>>, <<3840, 2160>>, <<7680, 4320>>}
ProbeInfos == {NoInfo} \cup
              {[ok |-> TRUE, codec |-> c, width |-> r[1], height |-> r[2]] :
                  c \in {"h264", "hevc"}, r \in Resolutions}

\* what nvidia-smi can report of one device: utilization, and memory total and used
GpuMemory == {<<1000, 100>>, <<1000, 700>>, <<8000, 7000>>}
GpuDevices == {[gpu_utilization |-> u, memory_total_mb |-> m[1], memory_used_mb |-> m[2]] :
                  u \in {gpu_threshold_util - 1, gpu_threshold_util}, m \in GpuMemory}

\* get_nvidia_gpu_usage: None, or the list of the devices
GpuReadings == {NoGpuInfo} \cup
               {[available |-> TRUE, gpus |-> g] :
                   g \in UNION {[1..n -> GpuDevices] : n \in 0..MaxGpus}}

\* get_video_info: the cached report if there is one, else a new run of ffprobe
get_video_info(cached, probe) == IF cached.ok THEN cached ELSE probe

\* the reports a call of get_video_info can end with
ProbesAfter(cached) == IF cached.ok THEN {cached} ELSE ProbeInfos

\* a codec test that takes HEVC for the target codec
is_hevc_already(info) == info.ok /\ info.codec = "hevc"

\* is_h264_already: codec_name of the first video stream is h264
is_h264_already(info) == info.ok /\ info.codec = "h264"

\* get_video_resolution: 1920x1080 when there is no report
get_video_resolution(info) == IF info.ok THEN <<info.width, info.height>> ELSE <<1920, 1080>>

\* estimate_vram_usage, in MB
estimate_vram_usage(res) ==
    IF res[1] * res[2] <= 1920 * 1080 THEN 200
    ELSE IF res[1] * res[2] <= 2560 * 1440 THEN 350
    ELSE IF res[1] * res[2] <= 3840 * 2160 THEN 500
    ELSE 800

\* memory_usage_percent = (mem_used / mem_total) * 100 is at least the threshold
VramUsageTooHigh(gpu) == gpu.memory_used_mb * 100 >= vram_threshold * gpu.memory_total_mb

\* should_use_gpu: some device passes both tests of the loop
should_use_gpu(gpu_info) ==
    /\ gpu_info.available
    /\ \E i \in 1..Len(gpu_info.gpus) :
        /\ ~(gpu_info.gpus[i].gpu_utilization >= gpu_threshold_util)
        /\ ~VramUsageTooHigh(gpu_info.gpus[i])

\* vram_available = memory_total_mb - memory_used_mb
vram_available(gpu) == gpu.memory_total_mb - gpu.memory_used_mb

\* the devices process_video would hand to convert_to_h264_gpu, as list positions
GpuCandidates(gpu_info, estimated_vram) ==
    {i \in 1..Len(gpu_info.gpus) : vram_available(gpu_info.gpus[i]) >= estimated_vram}

\* os.path.splitext(original_name)[0]
BaseName(cs) ==
    IF ExtensionOf(cs) = <<>> THEN cs ELSE SubSeq(cs, 1, Len(cs) - Len(ExtensionOf(cs)) - 1)

\* os.path.join(final_dir, original_name), relative to the directory of the file
FinalPath(name) == FilenameChars(name)

\* os.path.join(final_dir, f"{base_name}_converting.mp4")
TempOutputPath(name) == BaseName(FilenameChars(name)) \o <<"_converting.mp4">>

\* f"{file_obj.file.path}_processing"
ProcessingPath(path) == path \o <<"_processing">>

VideoPaths == UNION {{RelativePath(n), FinalPath(n), TempOutputPath(n),
                      ProcessingPath(RelativePath(n)), ProcessingPath(FinalPath(n))} :
                     n \in VideoNames}

\* User.update_storage_used(file_size, subtract=True)
subtract_storage_used(used, file_size) == IF used - file_size > 0 THEN used - file_size ELSE 0

\* a video upload has been completed: its File row, its file and the counter
InitVideo ==
    /\ now = 0
    /\ chunkRecords = {}
    /\ chunkFiles = [k \in Filenames \X Idx |-> NoFile]
    /\ active_uploads = [f \in Filenames |-> NoSession]
    /\ \E name \in VideoNames :
        /\ fileTable = <<[name |-> name, size |-> Len(OriginalBytes),
                          path |-> RelativePath(name),
                          content_type |-> detect_content_type(name)]>>
        /\ mediaFiles = [q \in VideoPaths |->
                            IF q = RelativePath(name)
                            THEN [exists |-> TRUE, data |-> OriginalBytes, ctime |-> 0]
                            ELSE NoFile]
    /\ storage_used = Len(OriginalBytes)
    /\ bgCleanup = 0
    /\ pc = [p \in Procs |-> "idle"]
    /\ req = [p \in Procs |-> NoReq]
    /\ loc = [p \in Procs |-> NoLoc]
    /\ resp = [p \in Procs |-> NoResp]
    /\ lastDone = [f \in Filenames |-> NoPrev]
    /\ sent = [f \in Filenames |-> NothingSent]
    /\ nreqs = 0
    /\ nticks = 0
    /\ view = NoView
    /\ video = NoVideo
    /\ processing = NoProcessing
    /\ executor = NoExecutor

\* the executor runs process_video_background(file_obj_id, original_file_path):
\* file_obj = DjangoFile.objects.get(id=file_obj_id)
\* (a row that is gone raises DoesNotExist: the job ends in its except branch)
VideoStart ==
    /\ video.pc = "none"
    /\ video' = IF Len(fileTable) >= 1
                THEN [video EXCEPT !.pc = "check", !.file_obj = fileTable[1],
                                   !.pre = [row |-> fileTable[1], used |-> storage_used,
                                            original |-> mediaFiles[fileTable[1].path]]]
                ELSE [video EXCEPT !.pc = "done"]
    /\ UNCHANGED <<fileTable, mediaFiles, storage_used>>

\* if processor.is_h264_already(): return
VideoCheck ==
    /\ video.pc = "check"
    /\ \E probe \in ProbesAfter(video.info) :
        LET info == get_video_info(video.info, probe) IN
        video' = [video EXCEPT !.info = info, !.first_probe = info,
                               !.strategy = IF is_h264_already(info) THEN "skip" ELSE @,
                               !.pc = IF is_h264_already(info) THEN "done" ELSE "process"]
    /\ UNCHANGED <<fileTable, mediaFiles, storage_used>>

\* process_video: the copy of a file found to be H.264, or the reading of the
\* devices by should_use_gpu
VideoProcess ==
    /\ video.pc = "process"
    /\ \E probe \in ProbesAfter(video.info), copied \in BOOLEAN, reading \in GpuReadings :
        LET info == get_video_info(video.info, probe)
            temp == TempOutputPath(video.file_obj.name) IN
        IF is_h264_already(info)
        THEN /\ reading = NoGpuInfo
             /\ video' = [video EXCEPT !.info = info, !.strategy = "copy",
                                       !.success = copied, !.pc = "after"]
             /\ mediaFiles' = IF copied
                              THEN [mediaFiles EXCEPT ![temp] =
                                      [exists |-> TRUE,
                                       data |-> mediaFiles[video.file_obj.path].data,
                                       ctime |-> now]]
                              ELSE mediaFiles
        ELSE /\ copied = FALSE
             /\ video' = [video EXCEPT !.info = info, !.gpu_info = reading,
                                       !.strategy = IF should_use_gpu(reading) THEN @ ELSE "cpu",
                                       !.pc = IF should_use_gpu(reading) THEN "pick" ELSE "cpu"]
             /\ UNCHANGED mediaFiles
    /\ UNCHANGED <<fileTable, storage_used>>

\* estimated_vram = self.estimate_vram_usage(); gpu_info = get_nvidia_gpu_usage();
\* the first device of the new reading with enough free memory is used
VideoPick ==
    /\ video.pc = "pick"
    /\ \E probe \in ProbesAfter(video.info), reading \in GpuReadings :
        LET info == get_video_info(video.info, probe)
            estimated_vram == estimate_vram_usage(get_video_resolution(info))
            fit == GpuCandidates(reading, estimated_vram)
        IN  video' = [video EXCEPT
                !.info = info,
                !.estimate = estimated_vram,
                !.stable = (reading = video.gpu_info),
                !.strategy = IF fit = {} THEN "cpu" ELSE "gpu",
                !.gpu_id = IF fit = {} THEN @
                           ELSE (CHOOSE i \in fit : \A j \in fit : i <= j) - 1,
                !.pc = IF fit = {} THEN "cpu" ELSE "gpu"]
    /\ UNCHANGED <<fileTable, mediaFiles, storage_used>>

\* what ffmpeg leaves at the output path: the encoded file when it succeeds,
\* when it fails a partial file or nothing
EncoderOutput(ok, left, n) ==
    IF ok \/ left THEN [exists |-> TRUE, data |-> EncodedBytes(n), ctime |-> now]
    ELSE NoFile

\* a process_video that returns the outcome of the GPU encode
AfterGpuNoFallback(ok) == "after"

\* if self.convert_to_h264_gpu(output_path, i): return True, ...
\* else: break, and the CPU encode below the loop runs
AfterGpu(ok) == IF ok THEN "after" ELSE "cpu"

\* convert_to_h264_gpu(output_path, i); a failure falls back to the CPU.  The
\* readings of the devices are not used after the choice.
VideoGpu ==
    /\ video.pc = "gpu"
    /\ \E ok \in BOOLEAN, left \in BOOLEAN, n \in 1..MaxEncoded :
        /\ ok => ~left
        /\ (~ok /\ ~left) => n = 1
        /\ mediaFiles' = [mediaFiles EXCEPT ![TempOutputPath(video.file_obj.name)] =
                              EncoderOutput(ok, left, n)]
        /\ video' = [video EXCEPT !.encoders = Append(@, "h264_nvenc"),
                                  !.gpu_info = NoGpuInfo,
                                  !.success = ok,
                                  !.pc = AfterGpu(ok)]
    /\ UNCHANGED <<fileTable, storage_used>>

\* convert_to_h264_cpu(output_path)
VideoCpu ==
    /\ video.pc = "cpu"
    /\ \E ok \in BOOLEAN, left \in BOOLEAN, n \in 1..MaxEncoded :
        /\ ok => ~left
        /\ (~ok /\ ~left) => n = 1
        /\ mediaFiles' = [mediaFiles EXCEPT ![TempOutputPath(video.file_obj.name)] =
                              IF ~ok /\ ~left THEN @ ELSE EncoderOutput(ok, left, n)]
        /\ video' = [video EXCEPT !.encoders = Append(@, "libx264"),
                                  !.gpu_info = NoGpuInfo,
                                  !.success = ok,
                                  !.pc = "after"]
    /\ UNCHANGED <<fileTable, storage_used>>

\* a failure branch that leaves the temporary output where it is
KeepTemp(files, temp) == files

\* if os.path.exists(temp_output_path): os.remove(temp_output_path)
RemoveTemp(files, temp) == [files EXCEPT ![temp] = NoFile]

\* if success and os.path.exists(temp_output_path): ... os.remove(original_file_path)
\* else: the temporary output is removed
VideoAfter ==
    /\ video.pc = "after"
    /\ LET temp == TempOutputPath(video.file_obj.name) IN
        IF video.success /\ mediaFiles[temp].exists
        THEN /\ mediaFiles' = [mediaFiles EXCEPT ![video.file_obj.path] = NoFile]
             /\ video' = [video EXCEPT !.pc = "rename",
                                       !.new_size = Len(mediaFiles[temp].data)]
        ELSE /\ mediaFiles' = RemoveTemp(mediaFiles, temp)
             /\ video' = [video EXCEPT !.pc = "done"]
    /\ UNCHANGED <<fileTable, storage_used>>

\* os.rename(temp_output_path, final_path)
VideoRename ==
    /\ video.pc = "rename"
    /\ LET temp == TempOutputPath(video.file_obj.name) IN
        mediaFiles' = [mediaFiles EXCEPT ![FinalPath(video.file_obj.name)] = mediaFiles[temp],
                                         ![temp] = NoFile]
    /\ video' = [video EXCEPT !.pc = "save"]
    /\ UNCHANGED <<fileTable, storage_used>>

\* file_obj.file.name, size and content_type are set and the row is saved:
\* Model.save() updates the row of this primary key and inserts it when the
\* update finds no row
VideoSave ==
    /\ video.pc = "save"
    /\ LET row == [video.file_obj EXCEPT
                      !.path = FinalPath(video.file_obj.name),
                      !.size = video.new_size,
                      !.content_type = "video/mp4"]
       IN  fileTable' = IF Len(fileTable) >= 1 THEN [fileTable EXCEPT ![1] = row]
                        ELSE <<row>>
    /\ video' = [video EXCEPT !.pc = "storage"]
    /\ UNCHANGED <<mediaFiles, storage_used>>

\* if size_diff != 0: file_obj.user.update_storage_used(abs(size_diff), subtract=...)
VideoStorage ==
    /\ video.pc = "storage"
    /\ LET size_diff == video.new_size - video.file_obj.size IN
        storage_used' = IF size_diff > 0 THEN update_storage_used(storage_used, size_diff)
                        ELSE IF size_diff < 0
                        THEN subtract_storage_used(storage_used, 0 - size_diff)
                        ELSE storage_used
    /\ video' = [video EXCEPT !.pc = "done"]
    /\ UNCHANGED <<fileTable, mediaFiles>>

process_video ==
    \/ VideoProcess
    \/ VideoPick
    \/ VideoGpu
    \/ VideoCpu

process_video_background ==
    \/ VideoStart
    \/ VideoCheck
    \/ process_video
    \/ VideoAfter
    \/ VideoRename
    \/ VideoSave
    \/ VideoStorage

\* File.delete(): the file is removed, then the row, then the size is released
FileDelete ==
    /\ Len(fileTable) >= 1
    /\ LET file_obj == fileTable[1] IN
        /\ mediaFiles' = [mediaFiles EXCEPT ![file_obj.path] = NoFile]
        /\ fileTable' = Tail(fileTable)
        /\ storage_used' = subtract_storage_used(storage_used, file_obj.size)
    /\ UNCHANGED <<video, view, processing, executor>>

\* ------------------------- requests for the artifact while its job runs
\* os.path.splitext(file_obj.name)[1].lower() of the modelled names
SplitExt(name) ==
    IF ExtensionOf(FilenameChars(name)) = <<"m", "o", "v">> THEN ".mov" ELSE ".bin"

\* VideoStreamingViewSet.stream, GET without a Range header, for the artifact:
\* the row is read, the file is looked up and measured, the response is built
StreamArtifactOpen ==
    /\ view.pc = "none"
    /\ LET file_obj == IF Len(fileTable) >= 1 THEN fileTable[1] ELSE NoRow
           file == IF Len(fileTable) >= 1 THEN mediaFiles[file_obj.path] ELSE NoFile
           r == IF ~file.exists THEN Http404
                ELSE FullResponse(<<>>, get_optimal_content_type(SplitExt(file_obj.name)))
       IN  view' = [NoView EXCEPT !.method = "GET", !.extension = SplitExt(file_obj.name),
                                  !.path = file_obj.path,
                                  !.status = r.status, !.content_type = r.content_type,
                                  !.content_length = Len(file.data),
                                  !.accept_ranges = r.accept_ranges,
                                  !.pc = IF file.exists THEN "body" ELSE "done"]
    /\ UNCHANGED <<fileTable, mediaFiles, storage_used, video, processing, executor>>

\* the response is sent: file_iterator opens file_path and yields what the file
\* holds then; when the file is gone the open raises and nothing is sent
StreamArtifactBody ==
    /\ view.pc = "body"
    /\ view' = [view EXCEPT !.file = mediaFiles[view.path],
                            !.body = mediaFiles[view.path].data,
                            !.pc = "done"]
    /\ UNCHANGED <<fileTable, mediaFiles, storage_used, video, processing, executor>>

StreamArtifact ==
    \/ StreamArtifactOpen
    \/ StreamArtifactBody

\* file_obj.content_type.startswith('video/')
IsVideoType(content_type) == content_type \in {"video/quicktime", "video/mp4"}

\* GET /video/processing-status/{file_id}
get_video_processing_status ==
    /\ processing.code = 0
    /\ processing' =
         IF Len(fileTable) >= 1
         THEN LET file_obj == fileTable[1]
                  processing_file == ProcessingPath(file_obj.path)
                  is_processing == /\ IsVideoType(file_obj.content_type)
                                   /\ mediaFiles[processing_file].exists
              IN  [code |-> 200, processing |-> is_processing,
                   content_type |-> file_obj.content_type, size |-> file_obj.size,
                   in_flight |-> video.pc \notin {"none", "done"}]
         ELSE [NoProcessing EXCEPT !.code = 404]
    /\ UNCHANGED <<fileTable, mediaFiles, storage_used, video, view, executor>>

\* ------------------------------------------------------- specifications
Handler(p) ==
    \/ upload_chunk(p)
    \/ complete_upload(p)
    \/ cancel_upload(p)
    \/ get_upload_status(p)

Request(p, files, nums, totals, variants) ==
    \/ StartUploadChunk(p, files, nums, totals, variants)
    \/ StartComplete(p, files)
    \/ StartCancel(p, files)
    \/ StartStatus(p, files)

Environment ==
    \/ Tick
    \/ PeriodicOld
    \/ PeriodicTemp
    \/ BackgroundCleanup
    \/ ProcessRestart

\* one client, one request at a time; time passes and sweeps run between requests
NextSeq ==
    \/ (nreqs < MaxReqs /\ Request(1, MainFiles, Idx, Totals, MainVariants) /\ UNCHANGED <<view, video, processing, executor>>)
    \/ (Handler(1) /\ UNCHANGED <<view, video, processing, executor>>)
    \/ (AllIdle /\ Environment /\ UNCHANGED <<view, video, processing, executor>>)

SpecSeq == Init /\ [][NextSeq]_vars

\* two handlers interleaving at their awaits
Next ==
    \/ (/\ nreqs < MaxRaceReqs
        /\ \E p \in Procs : Request(p, MainFiles, 0..1, {2}, MainVariants)
        /\ UNCHANGED <<view, video, processing, executor>>)
    \/ (UNCHANGED <<view, video, processing, executor>> /\ \E p \in Procs : Handler(p))

Spec == Init /\ [][Next]_vars

\* chunk 0 of a three-chunk upload has been accepted: its session, its row
\* and its file are in place and no request is being served
InitLast ==
    /\ now = 0
    /\ chunkRecords = {[id |-> 1, filename |-> "ab.bin", chunk_number |-> 0,
                         total_chunks |-> 3, total_size |-> 3, created_at |-> 0]}
    /\ chunkFiles = [k \in Filenames \X Idx |->
                        IF k = <<"ab.bin", 0>>
                        THEN [exists |-> TRUE, data |-> Payload(0, 1), ctime |-> 0]
                        ELSE NoFile]
    /\ active_uploads = [f \in Filenames |->
                            IF f = "ab.bin" THEN AddReceived(NewSession(3, 3), 0)
                            ELSE NoSession]
    /\ fileTable = <<>>
    /\ mediaFiles = [q \in Paths |-> NoFile]
    /\ storage_used = 0
    /\ bgCleanup = 0
    /\ pc = [p \in Procs |-> "idle"]
    /\ req = [p \in Procs |-> NoReq]
    /\ loc = [p \in Procs |-> NoLoc]
    /\ resp = [p \in Procs |-> NoResp]
    /\ lastDone = [f \in Filenames |->
                      IF f = "ab.bin" THEN [op |-> "upload_chunk", code |-> 200]
                      ELSE NoPrev]
    /\ sent = [f \in Filenames |->
                  IF f = "ab.bin"
                  THEN [NothingSent EXCEPT ![0] = [times |-> 1, seq |-> 1, total_chunks |-> 3,
                                                  data |-> Payload(0, 1)]]
                  ELSE NothingSent]
    /\ nreqs = 0
    /\ nticks = 0
    /\ view = NoView
    /\ video = NoVideo
    /\ processing = NoProcessing
    /\ executor = NoExecutor

\* two handlers interleaving at their awaits on the chunks of that upload
NextLast ==
    \/ (/\ nreqs < MaxLastReqs
        /\ \E p \in Procs : Request(p, MainFiles, Idx, {3}, MainVariants)
        /\ UNCHANGED <<view, video, processing, executor>>)
    \/ (UNCHANGED <<view, video, processing, executor>> /\ \E p \in Procs : Handler(p))

SpecLast == InitLast /\ [][NextLast]_vars

\* one client, one request at a time, sending chunk bodies of one or two bytes
\* whatever total_size it declares
NextSize ==
    \/ (/\ nreqs < MaxSizeReqs
        /\ Request(1, MainFiles, 0..1, {2}, Variants)
        /\ UNCHANGED <<view, video, processing, executor>>)
    \/ (Handler(1) /\ UNCHANGED <<view, video, processing, executor>>)

SpecSize == Init /\ [][NextSize]_vars

\* one client, one request at a time, on a disk where the removal of a chunk
\* file can fail
NextFail ==
    \/ (/\ nreqs < MaxFailReqs
        /\ Request(1, MainFiles, 0..1, {2}, MainVariants)
        /\ UNCHANGED <<view, video, processing, executor>>)
    \/ (Handler(1) /\ UNCHANGED <<view, video, processing, executor>>)
    \/ (UploadCleanupFails(1) /\ UNCHANGED <<view, video, processing, executor>>)
    \/ (CompleteDeleteFails(1) /\ UNCHANGED <<view, video, processing, executor>>)
    \/ (CancelDeleteFails(1) /\ UNCHANGED <<view, video, processing, executor>>)

SpecFail == Init /\ [][NextFail]_vars

\* one client, one request at a time, on two identities: 'ab.bin' is uploaded
\* in two chunks, of 'a b.bin' only chunk 1 of three is ever sent, so that a
\* queued cleanup_temp_files was always queued by an upload of 'ab.bin'
NextTwo ==
    \/ (/\ nreqs < MaxTwoReqs
        /\ Request(1, MainFiles, 0..1, {2}, MainVariants)
        /\ UNCHANGED <<view, video, processing, executor>>)
    \/ (/\ nreqs < MaxTwoReqs
        /\ Request(1, Filenames \ MainFiles, {1}, {3}, MainVariants)
        /\ UNCHANGED <<view, video, processing, executor>>)
    \/ (Handler(1) /\ UNCHANGED <<view, video, processing, executor>>)
    \/ (AllIdle /\ Tick /\ UNCHANGED <<view, video, processing, executor>>)
    \/ (AllIdle /\ BackgroundCleanup /\ UNCHANGED <<view, video, processing, executor>>)

SpecTwo == Init /\ [][NextTwo]_vars

\* both chunks of the two-chunk upload 'ab.bin' have been accepted and the
\* queued cleanup has run: session, rows and files are in place
InitAgain ==
    /\ now = 0
    /\ chunkRecords = {[id |-> n + 1, filename |-> "ab.bin", chunk_number |-> n,
                         total_chunks |-> 2, total_size |-> 3, created_at |-> 0] :
                        n \in 0..1}
    /\ chunkFiles = [k \in Filenames \X Idx |->
                        IF k[1] = "ab.bin" /\ k[2] \in 0..1
                        THEN [exists |-> TRUE, data |-> Payload(k[2], 1), ctime |-> 0]
                        ELSE NoFile]
    /\ active_uploads = [f \in Filenames |->
                            IF f = "ab.bin"
                            THEN AddReceived(AddReceived(NewSession(2, 3), 0), 1)
                            ELSE NoSession]
    /\ fileTable = <<>>
    /\ mediaFiles = [q \in Paths |-> NoFile]
    /\ storage_used = 0
    /\ bgCleanup = 0
    /\ pc = [p \in Procs |-> "idle"]
    /\ req = [p \in Procs |-> NoReq]
    /\ loc = [p \in Procs |-> NoLoc]
    /\ resp = [p \in Procs |-> NoResp]
    /\ lastDone = [f \in Filenames |->
                      IF f = "ab.bin" THEN [op |-> "upload_chunk", code |-> 200]
                      ELSE NoPrev]
    /\ sent = [f \in Filenames |->
                  IF f = "ab.bin"
                  THEN [n \in Idx |->
                          IF n \in 0..1
                          THEN [times |-> 1, seq |-> n + 1, total_chunks |-> 2,
                                data |-> Payload(n, 1)]
                          ELSE NoSent]
                  ELSE NothingSent]
    /\ nreqs = 0
    /\ nticks = 0
    /\ view = NoView
    /\ video = NoVideo
    /\ processing = NoProcessing
    /\ executor = NoExecutor

\* one client, one request at a time, on the two names that sanitize alike
NextAgain ==
    \/ (/\ nreqs < MaxAgainReqs
        /\ Request(1, Filenames, 0..1, {2}, MainVariants)
        /\ UNCHANGED <<view, video, processing, executor>>)
    \/ (Handler(1) /\ UNCHANGED <<view, video, processing, executor>>)

SpecAgain == InitAgain /\ [][NextAgain]_vars

\* ------------------------------------ video_processing_executor and its jobs
\* ThreadPoolExecutor(max_workers=2, thread_name_prefix="video_proc")
max_workers == 2

\* an executor that starts a thread for every submitted job
AlwaysStartThread(num_threads) == TRUE

\* ThreadPoolExecutor._adjust_thread_count: if num_threads < self._max_workers
CanStartThread(num_threads) == num_threads < max_workers

\* the positions of a job that a worker thread has taken and not finished
RunningPcs == {"get", "encode", "after", "rename", "save", "except"}
Running == {j \in 1..MaxJobs : executor.jobs[j].pc \in RunningPcs}
Submitted == {j \in 1..MaxJobs : executor.jobs[j].pc # "none"}

\* the temporary output path of job j
TempOf(j) == TempOutputPath(executor.jobs[j].name)

\* f.endswith('_converting.mp4'), for the files of the directory
IsConverting(q) == \E n \in VideoNames : q = TempOutputPath(n)

\* the end of complete_upload for a video upload whose chunks are merged:
\* shutil.move(merged_file_path, final_file_path), create_file_record,
\* update_user_storage, loop.run_in_executor(video_processing_executor,
\* process_video_background, str(file_obj.id), final_file_path)
CompleteVideo ==
    /\ \E name \in VideoNames, j \in 1..MaxJobs :
        /\ executor.jobs[j].pc = "none"
        /\ \A k \in 1..(j - 1) : executor.jobs[k].pc # "none"
        /\ fileTable' = Append(fileTable,
                               [name |-> name, size |-> Len(OriginalBytes),
                                path |-> RelativePath(name),
                                content_type |-> detect_content_type(name)])
        /\ mediaFiles' = [mediaFiles EXCEPT ![RelativePath(name)] =
                              [exists |-> TRUE, data |-> OriginalBytes, ctime |-> now]]
        /\ storage_used' = update_storage_used(storage_used, Len(OriginalBytes))
        /\ executor' = [executor EXCEPT
                           !.jobs[j] = [NoJob EXCEPT !.pc = "queued",
                                                     !.file_id = Len(fileTable) + 1,
                                                     !.name = name],
                           !.queue = Append(@, j),
                           !.threads = IF CanStartThread(@) THEN @ + 1 ELSE @]

\* a worker thread without a job takes the next one off the queue
JobTake ==
    /\ executor.queue # <<>>
    /\ Cardinality(Running) < executor.threads
    /\ executor' = [executor EXCEPT !.jobs[Head(executor.queue)].pc = "get",
                                    !.queue = Tail(@)]
    /\ UNCHANGED <<fileTable, mediaFiles, storage_used>>

\* file_obj = DjangoFile.objects.get(id=file_obj_id);
\* if processor.is_h264_already(): return
JobGet(j) ==
    /\ executor.jobs[j].pc = "get"
    /\ \E h264 \in BOOLEAN :
        executor' = [executor EXCEPT !.jobs[j].pc = IF h264 THEN "done" ELSE "encode"]
    /\ UNCHANGED <<fileTable, mediaFiles, storage_used>>

\* success, message = processor.process_video(temp_output_path): the encoders
\* read the original and write the temporary output
JobEncode(j) ==
    /\ executor.jobs[j].pc = "encode"
    /\ \E ok \in BOOLEAN, left \in BOOLEAN :
        /\ ok => (~left /\ mediaFiles[fileTable[executor.jobs[j].file_id].path].exists)
        /\ mediaFiles' = [mediaFiles EXCEPT ![TempOf(j)] =
                              IF ~ok /\ ~left THEN @ ELSE EncoderOutput(ok, left, 1)]
        /\ executor' = [executor EXCEPT !.jobs[j].success = ok, !.jobs[j].pc = "after"]
    /\ UNCHANGED <<fileTable, storage_used>>

\* the temporary output that another running job has encoded and not yet renamed
ForeignTemp(j, q) ==
    /\ mediaFiles[q].exists
    /\ \E k \in Running \ {j} :
        /\ executor.jobs[k].pc \in {"after", "rename"}
        /\ executor.jobs[k].success
        /\ TempOf(k) = q

\* if success and os.path.exists(temp_output_path): new_size is read and the
\* original is removed; else the temporary output is removed
JobAfter(j) ==
    /\ executor.jobs[j].pc = "after"
    /\ LET temp == TempOf(j)
           original == fileTable[executor.jobs[j].file_id].path IN
        IF executor.jobs[j].success /\ mediaFiles[temp].exists
        THEN /\ mediaFiles' = [mediaFiles EXCEPT ![original] = NoFile]
             /\ executor' = [executor EXCEPT
                                !.jobs[j].pc = "rename",
                                !.jobs[j].new_size = Len(mediaFiles[temp].data)]
        ELSE /\ mediaFiles' = RemoveTemp(mediaFiles, temp)
             /\ executor' = [executor EXCEPT
                                !.jobs[j].pc = "done",
                                !.jobs[j].foreign = @ \/ ForeignTemp(j, temp)]
    /\ UNCHANGED <<fileTable, storage_used>>

\* os.rename(temp_output_path, final_path); FileNotFoundError when the
\* temporary output is gone
JobRename(j) ==
    /\ executor.jobs[j].pc = "rename"
    /\ LET temp == TempOf(j) IN
        IF mediaFiles[temp].exists
        THEN /\ mediaFiles' = [mediaFiles EXCEPT
                                  ![FinalPath(executor.jobs[j].name)] = mediaFiles[temp],
                                  ![temp] = NoFile]
             /\ executor' = [executor EXCEPT !.jobs[j].pc = "save"]
        ELSE /\ executor' = [executor EXCEPT !.jobs[j].pc = "except"]
             /\ UNCHANGED mediaFiles
    /\ UNCHANGED <<fileTable, storage_used>>

\* file_obj.save() and file_obj.user.update_storage_used(abs(size_diff), ...)
JobSave(j) ==
    /\ executor.jobs[j].pc = "save"
    /\ LET id == executor.jobs[j].file_id
           size_diff == executor.jobs[j].new_size - fileTable[id].size IN
        /\ fileTable' = [fileTable EXCEPT ![id] =
                             [@ EXCEPT !.path = FinalPath(executor.jobs[j].name),
                                       !.size = executor.jobs[j].new_size,
                                       !.content_type = "video/mp4"]]
        /\ storage_used' = IF size_diff > 0 THEN update_storage_used(storage_used, size_diff)
                           ELSE IF size_diff < 0
                           THEN subtract_storage_used(storage_used, 0 - size_diff)
                           ELSE storage_used
    /\ executor' = [executor EXCEPT !.jobs[j].pc = "done"]
    /\ UNCHANGED mediaFiles

\* except Exception: every file of the directory that ends with
\* '_converting.mp4' is removed
JobExcept(j) ==
    /\ executor.jobs[j].pc = "except"
    /\ mediaFiles' = [q \in DOMAIN mediaFiles |->
                         IF IsConverting(q) THEN NoFile ELSE mediaFiles[q]]
    /\ executor' = [executor EXCEPT
                       !.jobs[j].pc = "done",
                       !.jobs[j].foreign = @ \/ \E q \in DOMAIN mediaFiles :
                                                   IsConverting(q) /\ ForeignTemp(j, q)]
    /\ UNCHANGED <<fileTable, storage_used>>

\* process_video_background as the executor runs it, one call per job
JobStep(j) ==
    \/ JobGet(j)
    \/ JobEncode(j)
    \/ JobAfter(j)
    \/ JobRename(j)
    \/ JobSave(j)
    \/ JobExcept(j)

\* no upload is in progress and no File row exists
InitPool ==
    /\ now = 0
    /\ chunkRecords = {}
    /\ chunkFiles = [k \in Filenames \X Idx |-> NoFile]
    /\ active_uploads = [f \in Filenames |-> NoSession]
    /\ fileTable = <<>>
    /\ mediaFiles = [q \in VideoPaths |-> NoFile]
    /\ storage_used = 0
    /\ bgCleanup = 0
    /\ pc = [p \in Procs |-> "idle"]
    /\ req = [p \in Procs |-> NoReq]
    /\ loc = [p \in Procs |-> NoLoc]
    /\ resp = [p \in Procs |-> NoResp]
    /\ lastDone = [f \in Filenames |-> NoPrev]
    /\ sent = [f \in Filenames |-> NothingSent]
    /\ nreqs = 0
    /\ nticks = 0
    /\ view = NoView
    /\ video = NoVideo
    /\ processing = NoProcessing
    /\ executor = NoExecutor

\* completed video uploads and the worker threads of the executor
NextPool ==
    /\ \/ CompleteVideo
       \/ JobTake
       \/ \E j \in 1..MaxJobs : JobStep(j)
    /\ UNCHANGED <<now, chunkRecords, chunkFiles, active_uploads, bgCleanup, pc, req, loc,
                   resp, lastDone, sent, nreqs, nticks, view, video, processing>>

SpecPool == InitPool /\ [][NextPool]_vars

\* requests to the stream view of the Django application, one at a time
NextStream ==
    \/ (StreamRequest /\ UNCHANGED <<video, processing, executor>>)
    \/ (stream /\ UNCHANGED <<video, processing, executor>>)

SpecStream == Init /\ [][NextStream]_vars

\* one transcode job, run by a worker thread of video_processing_executor
NextVideo ==
    /\ process_video_background
    /\ UNCHANGED <<now, chunkRecords, chunkFiles, active_uploads, bgCleanup, pc, req, loc,
                   resp, lastDone, sent, nreqs, nticks, view, processing, executor>>

SpecVideo == InitVideo /\ [][NextVideo]_vars

\* the job of a worker thread, with requests of the Django and FastAPI
\* applications for the same artifact arriving at any moment
NextServe ==
    /\ \/ (process_video_background /\ UNCHANGED <<view, processing, executor>>)
       \/ StreamArtifact
       \/ get_video_processing_status
    /\ UNCHANGED <<now, chunkRecords, chunkFiles, active_uploads, bgCleanup, pc, req, loc,
                   resp, lastDone, sent, nreqs, nticks>>

SpecServe == InitVideo /\ [][NextServe]_vars

\* the job of a worker thread and the deletion of its artifact by a request of
\* the Django application, in any order
NextAccount ==
    /\ \/ (process_video_background /\ UNCHANGED <<view, processing, executor>>)
       \/ FileDelete
    /\ UNCHANGED <<now, chunkRecords, chunkFiles, active_uploads, bgCleanup, pc, req, loc,
                   resp, lastDone, sent, nreqs, nticks>>

SpecAccount == InitVideo /\ [][NextAccount]_vars

\* ------------------------------------------------------------- properties
\* handler p has returned and its response is on record
Done(p) == pc[p] = "idle" /\ resp[p].op # "none"

Range(sq) == {sq[i] : i \in 1..Len(sq)}

\* since the last complete or cancel each of the chunks 0..N-1 was accepted once,
\* declared as one of N, and no other chunk was
SentEachOnce(sn, N) ==
    \A n \in Idx : IF n < N THEN sn[n].times = 1 /\ sn[n].total_chunks = N
                   ELSE sn[n].times = 0

\* the bytes of the chunks 0..N-1 as sent, in increasing chunk number
SentInOrder(sn, N) == Concat([i \in 1..N |-> sn[i - 1].data])

\* C1: when each of the chunks 0..N-1 has been uploaded once, in whatever order,
\* the following complete succeeds and the artifact has the size of the chunks
\* together and their bytes in increasing chunk number.
C1_AnyOrderAssembly ==
    \A p \in Procs : \A N \in Totals :
        (Done(p) /\ resp[p].op = "complete_upload" /\ SentEachOnce(resp[p].pre.sent, N))
        => /\ resp[p].code = 200
           /\ resp[p].size = Len(SentInOrder(resp[p].pre.sent, N))
           /\ resp[p].merged = SentInOrder(resp[p].pre.sent, N)

\* C2: no two complete calls succeed on the same chunk rows, so one upload
\* session never yields two artifact records.
C2_AtMostOnceAssembly ==
    \A p, q \in Procs :
        (p # q /\ Done(p) /\ Done(q)
         /\ resp[p].op = "complete_upload" /\ resp[q].op = "complete_upload"
         /\ resp[p].code = 200 /\ resp[q].code = 200)
        => resp[p].ids \cap resp[q].ids = {}

\* the request before this one on the same identity was a complete that succeeded
AfterComplete(p) == resp[p].prev = [op |-> "complete_upload", code |-> 200]

Reupload(p) ==
    /\ Done(p) /\ resp[p].op = "upload_chunk" /\ resp[p].code = 200
    /\ resp[p].pre.sess.active
    /\ resp[p].chunk_number \in resp[p].pre.sess.chunks_received

\* C4 as stated: uploading again any chunk number the session has already
\* received leaves the reported chunksReceived as it was.
C4_ReuploadKeepsCount ==
    \A p \in Procs :
        Reupload(p)
        => resp[p].chunks_received = Cardinality(resp[p].pre.sess.chunks_received)

\* C4 amended: uploading again a chunk number other than 0 that the session has
\* already received leaves the reported chunksReceived as it was.
C4_ReuploadNonzeroKeepsCount ==
    \A p \in Procs :
        (Reupload(p) /\ resp[p].chunk_number # 0)
        => resp[p].chunks_received = Cardinality(resp[p].pre.sess.chunks_received)

C4_Witness ==
    \E p \in Procs :
        /\ Reupload(p) /\ resp[p].chunk_number # 0
        /\ Cardinality(resp[p].pre.sess.chunks_received) = 2

\* C5: an accepted upload of chunk 0 for an identity that has a session leaves
\* chunksReceived = 1, a session holding only chunk 0, and chunk 0 as the only
\* chunk record and the only chunk file of the identity.
C5_RestartClears ==
    \A p \in Procs :
        (Done(p) /\ resp[p].op = "upload_chunk" /\ resp[p].code = 200
         /\ resp[p].chunk_number = 0 /\ resp[p].pre.sess.active)
        => /\ resp[p].chunks_received = 1
           /\ resp[p].post.sess.active
           /\ resp[p].post.sess.chunks_received = {0}
           /\ resp[p].post.recs = {0}
           /\ resp[p].post.blobs = {0}

C5_Witness ==
    \E p \in Procs :
        /\ Done(p) /\ resp[p].op = "upload_chunk" /\ resp[p].code = 200
        /\ resp[p].chunk_number = 0
        /\ resp[p].pre.sess.active
        /\ resp[p].pre.recs = {0, 1}
        /\ resp[p].pre.blobs = {0, 1}

\* C6: a cancel leaves no session, no chunk record and no chunk file of the
\* identity, and the status check that follows it reports not found.
C6_CancelThenStatusNotFound ==
    \A p \in Procs :
        /\ (Done(p) /\ resp[p].op = "cancel_upload" /\ resp[p].code = 200)
           => /\ ~resp[p].post.sess.active
              /\ resp[p].post.recs = {}
              /\ resp[p].post.blobs = {}
        /\ (Done(p) /\ resp[p].op = "get_upload_status"
            /\ resp[p].prev = [op |-> "cancel_upload", code |-> 200])
           => /\ resp[p].code = 404
              /\ resp[p].detail = "Upload not found"

\* C7: a complete that succeeds has merged exactly the chunk numbers 0..N-1,
\* N being the declared total.
C7_CompleteOnlyContiguous ==
    \A p \in Procs :
        (Done(p) /\ resp[p].op = "complete_upload" /\ resp[p].code = 200)
        => Range(resp[p].nums) = 0..(resp[p].total_chunks - 1)

\* C8: with 3 declared chunks and the rows of chunks 0 and 2, complete fails
\* naming chunk 1, adds no artifact and keeps both chunks; with the rows of 0, 1
\* and 2 it succeeds with an artifact of the declared total size.
C8_MissingChunkNamed ==
    \A p \in Procs :
        (Done(p) /\ resp[p].op = "complete_upload" /\ resp[p].pre.total = 3)
        => /\ resp[p].pre.recs = {0, 2}
              => /\ resp[p].code >= 400
                 /\ resp[p].missing = 1
                 /\ resp[p].post.nfiles = resp[p].pre.nfiles
                 /\ resp[p].post.recs = {0, 2}
                 /\ resp[p].post.blobs = resp[p].pre.blobs
           /\ (resp[p].pre.recs = {0, 1, 2} /\ resp[p].pre.blobs = {0, 1, 2})
              => /\ resp[p].code = 200
                 /\ resp[p].size = resp[p].pre.declared

\* C9: a complete whose merged bytes are not as many as the declared total size
\* fails, adds no artifact record, leaves the counter and keeps the chunks.
C9_SizeMismatchRejected ==
    \A p \in Procs :
        (Done(p) /\ resp[p].op = "complete_upload"
         /\ resp[p].pre.recs = 0..(resp[p].pre.total - 1)
         /\ resp[p].pre.blobs = resp[p].pre.recs
         /\ resp[p].pre.recs # {}
         /\ resp[p].post.nfiles > resp[p].pre.nfiles)
        => fileTable[resp[p].post.nfiles].size = resp[p].pre.declared

\* C10: a complete called while the identity has fewer chunk rows than the
\* declared total answers 4xx with the number uploaded and the total, and leaves
\* the rows, the files, the session, the artifacts and the counter as they were.
C10_IncompleteChangesNothing ==
    \A p \in Procs :
        (Done(p) /\ resp[p].op = "complete_upload"
         /\ resp[p].pre.recs # {}
         /\ Cardinality(resp[p].pre.recs) < resp[p].pre.total)
        => /\ resp[p].code \in 400..499
           /\ resp[p].uploaded = Cardinality(resp[p].pre.recs)
           /\ resp[p].total_chunks = resp[p].pre.total
           /\ resp[p].post = resp[p].pre

C10_Witness ==
    \E p \in Procs :
        /\ Done(p) /\ resp[p].op = "complete_upload"
        /\ resp[p].pre.recs = {0, 2}
        /\ resp[p].pre.total = 3
        /\ resp[p].pre.sess.active

\* C11: an upload of a chunk whose declared total size does not fit in what is
\* left of the owner's quota is answered with the not-enough-space error, and the
\* session, the chunk rows, the chunk files, the artifacts and the counter of the
\* identity are afterwards what they were before the request.
C11_QuotaRejection ==
    \A p \in Procs :
        (Done(p) /\ resp[p].op = "upload_chunk"
         /\ resp[p].pre.used + resp[p].total_size > StorageQuota)
        => /\ resp[p].code \in 400..499
           /\ resp[p].detail = "Not enough storage space"
           /\ resp[p].post = resp[p].pre

C11_Witness ==
    \E p \in Procs :
        /\ Done(p) /\ resp[p].op = "upload_chunk"
        /\ resp[p].pre.used + resp[p].total_size > StorageQuota
        /\ resp[p].pre.sess.active
        /\ resp[p].pre.recs = {0}
        /\ resp[p].pre.blobs = {0}

\* C12: a status request answers in_progress with the size of the received set
\* when the identity has a session in memory, unknown with the number of chunk
\* rows when it has no session but has rows, and not found when it has neither.
C12_StatusReporting ==
    \A p \in Procs :
        (Done(p) /\ resp[p].op = "get_upload_status")
        => IF resp[p].pre.sess.active
           THEN /\ resp[p].code = 200
                /\ resp[p].status = "in_progress"
                /\ resp[p].chunks_received = Cardinality(resp[p].pre.sess.chunks_received)
           ELSE IF resp[p].pre.recs # {}
           THEN /\ resp[p].code = 200
                /\ resp[p].status = "unknown"
                /\ resp[p].chunks_received = Cardinality(resp[p].pre.recs)
           ELSE /\ resp[p].code = 404
                /\ resp[p].detail = "Upload not found"

\* the chunks 0..k-1, and no others, were accepted once each, in increasing order
SentAscending(sn, k) ==
    \A n \in Idx : IF n < k THEN sn[n].times = 1 /\ sn[n].seq = n + 1
                   ELSE sn[n].times = 0

\* C13: when the chunks 0..N-1 of a file that fits the quota are uploaded in
\* increasing order, one request at a time, every chunk request is answered 200,
\* and the complete that follows is answered 200 with the metadata of the
\* artifact of that filename.
C13_SequentialHappyPath ==
    \A p \in Procs : \A N \in Totals :
        /\ (Done(p) /\ resp[p].op = "upload_chunk"
            /\ resp[p].chunk_number < N
            /\ SentAscending(resp[p].pre.sent, resp[p].chunk_number)
            /\ resp[p].pre.used + resp[p].total_size <= StorageQuota)
           => resp[p].code = 200
        /\ (Done(p) /\ resp[p].op = "complete_upload"
            /\ SentEachOnce(resp[p].pre.sent, N) /\ SentAscending(resp[p].pre.sent, N))
           => /\ resp[p].code = 200
              /\ resp[p].path = RelativePath(resp[p].filename)
              /\ resp[p].size = Len(SentInOrder(resp[p].pre.sent, N))

\* ---------------------------------------------------- properties of the stream view
\* the view has answered the request on record
Answered == view.method # "none" /\ view.status # 0

IsNumber(ds) == ds # <<>> /\ \A i \in 1..Len(ds) : ds[i] \in Digits

\* the header is "bytes=", a number, "-", and then a number or nothing
RangeSyntax(h) ==
    /\ Len(h) >= 3
    /\ h[1] = "bytes="
    /\ \E k \in 3..Len(h) :
        /\ h[k] = "-"
        /\ IsNumber(SubSeq(h, 2, k - 1))
        /\ k = Len(h) \/ IsNumber(SubSeq(h, k + 1, Len(h)))

DashOf(h) == CHOOSE k \in 1..Len(h) : h[k] = "-"
StartOf(h) == ParseInt(SubSeq(h, 2, DashOf(h) - 1))
HasEnd(h) == DashOf(h) < Len(h)
EndOf(h) == ParseInt(SubSeq(h, DashOf(h) + 1, Len(h)))

\* a well-formed range: the syntax above, and an end, if given, not before the start
WellFormedRange(h) == RangeSyntax(h) /\ (HasEnd(h) => StartOf(h) <= EndOf(h))

\* the last byte a well-formed range asks for in a file of S bytes
LastOf(h, S) == IF HasEnd(h) /\ EndOf(h) < S - 1 THEN EndOf(h) ELSE S - 1

\* C14: a GET with a well-formed Range bytes=a-b (b may be absent), a <= b and
\* a < S on an artifact of S bytes is answered 206 with Content-Range
\* bytes a-e/S, e = min(b, S-1), Content-Length e-a+1 and the bytes a..e as body.
C14_RangedGet ==
    (Answered /\ view.method = "GET" /\ view.file.exists /\ view.has_range
     /\ WellFormedRange(view.range_header)
     /\ StartOf(view.range_header) < Len(view.file.data))
    => LET a == StartOf(view.range_header)
           S == Len(view.file.data)
           e == LastOf(view.range_header, S)
       IN  /\ view.status = 206
           /\ view.content_range = [present |-> TRUE, start |-> a, end |-> e, size |-> S]
           /\ view.content_length = e - a + 1
           /\ view.body = SubSeq(view.file.data, a + 1, e + 1)

C14_Witness ==
    /\ Answered /\ view.method = "GET" /\ view.file.exists
    /\ view.has_range
    /\ view.range_header = <<"bytes=", "1", "-", "1", "0">>
    /\ Len(view.file.data) = 3
    /\ view.content_range.present /\ view.content_range.end = 2
    /\ Len(view.body) = 2

\* C15: a GET whose well-formed range starts at or after the size of the
\* artifact is answered with an error, and no 206 answer has a negative
\* Content-Length or a Content-Range that starts after its end.
C15_StartBeyondSizeRejected ==
    /\ (Answered /\ view.method = "GET" /\ view.file.exists /\ view.has_range
        /\ WellFormedRange(view.range_header)
        /\ StartOf(view.range_header) >= Len(view.file.data))
       => view.status >= 400
    /\ (Answered /\ view.status = 206)
       => /\ view.content_length >= 0
          /\ view.content_range.start <= view.content_range.end

\* C16: a GET with a Range header that is not empty and is not a well-formed
\* range is answered with a client error, never with 200 or 206.
C16_MalformedRangeRejected ==
    (Answered /\ view.method = "GET" /\ view.file.exists /\ view.has_range
     /\ view.range_header # <<>>
     /\ ~WellFormedRange(view.range_header))
    => view.status \in 400..499

\* C17: a GET without a Range header is answered 200 with the whole artifact,
\* Content-Length equal to its size and Accept-Ranges: bytes; a HEAD is answered
\* with the same size, content type and Accept-Ranges, and no body.
C17_FullAndHead ==
    /\ (Answered /\ view.method = "GET" /\ view.file.exists /\ ~view.has_range)
       => /\ view.status = 200
          /\ view.content_length = Len(view.file.data)
          /\ view.body = view.file.data
          /\ view.accept_ranges = "bytes"
          /\ view.content_type = IF view.extension = ".webm" THEN "video/webm"
                                 ELSE "video/mp4"
    /\ (Answered /\ view.method = "HEAD" /\ view.file.exists)
       => /\ view.status = 200
          /\ view.content_length = Len(view.file.data)
          /\ view.body = <<>>
          /\ view.accept_ranges = "bytes"
          /\ view.content_type = IF view.extension = ".webm" THEN "video/webm"
                                 ELSE "video/mp4"

C17_Witness ==
    /\ Answered /\ view.method = "GET" /\ view.file.exists /\ ~view.has_range
    /\ Len(view.file.data) = 3
    /\ view.status = 200
    /\ Len(view.body) = 3

\* ------------------------------------------------ properties of the transcode job
\* the job has chosen the encoder it tries first and not yet run it, for a video
\* that the first probe reported as not H.264, and the devices read the same at
\* both readings
StrategyDecided ==
    /\ video.strategy \in {"gpu", "cpu"}
    /\ video.pc \in {"gpu", "cpu"}
    /\ video.encoders = <<>>
    /\ video.first_probe.ok
    /\ video.first_probe.codec # "h264"
    /\ video.stable

\* the memory estimate of the resolution tier of the video
TierEstimate == estimate_vram_usage(get_video_resolution(video.info))

\* the device is below the utilization threshold and has the estimate free
Qualifies(gpu) ==
    /\ gpu.gpu_utilization < gpu_threshold_util
    /\ gpu.memory_total_mb - gpu.memory_used_mb >= TierEstimate

\* C18: for a video that is not in the target codec the strategy is cpu when no
\* GPU is present and when no device has both utilization below the threshold
\* and free memory of at least the estimate of the resolution tier.
C18_CpuWhenNoDeviceQualifies ==
    (StrategyDecided
     /\ \A i \in 1..Len(video.gpu_info.gpus) : ~Qualifies(video.gpu_info.gpus[i]))
    => video.strategy = "cpu"

\* C19: when the strategy is gpu(i), device i is below the utilization threshold
\* and has the estimate of the resolution tier free, and no device before it does.
C19_GpuIsFirstQualifying ==
    (StrategyDecided /\ video.strategy = "gpu")
    => /\ Qualifies(video.gpu_info.gpus[video.gpu_id + 1])
       /\ \A j \in 1..video.gpu_id : ~Qualifies(video.gpu_info.gpus[j])

\* C20: when the probe reports H.264 the job ends in skip, no encoder is
\* invoked, and the path, size and content type of the File row, the file itself
\* and the storage-used counter stay what they were when the job started.
C20_SkipChangesNothing ==
    (video.first_probe.ok /\ video.first_probe.codec = "h264")
    => /\ video.pc = "done"
       /\ video.strategy = "skip"
       /\ video.encoders = <<>>
       /\ fileTable[1] = video.pre.row
       /\ mediaFiles[video.pre.row.path] = video.pre.original
       /\ mediaFiles[TempOutputPath(video.pre.row.name)] = NoFile
       /\ storage_used = video.pre.used

C20_Witness ==
    /\ video.pc = "done"
    /\ video.first_probe.ok /\ video.first_probe.codec = "h264"
    /\ video.strategy = "skip"
    /\ video.pre.row.name = "a b.mov"
    /\ video.pre.original.exists

\* a step of a sweep: no handler is running and none starts
SweepStep == AllIdle /\ pc' = pc

\* C24: a sweep, periodic or queued by a chunk upload, deletes no chunk file
\* and no chunk record that is younger than the retention window of 24 hours.
C24_RetentionWindow ==
    [][SweepStep =>
        /\ \A k \in Filenames \X Idx :
              chunkFiles[k].exists /\ ~chunkFiles'[k].exists
                  => now - chunkFiles[k].ctime > RetentionMinutes
        /\ \A r \in chunkRecords \ chunkRecords' : RecordExpired(r)]_vars

\* an accepted chunk upload that found a session created with another total
TotalMismatch(p) ==
    /\ Done(p) /\ resp[p].op = "upload_chunk" /\ resp[p].code = 200
    /\ resp[p].pre.sess.active
    /\ resp[p].pre.sess.total_chunks # resp[p].total_chunks

\* C25: a chunk that finds a session created with a different total_chunks
\* replaces it by a fresh session with the newly declared total, holding this
\* chunk only, and ready_to_merge is judged against the session's own total.
C25_SessionReplacement ==
    \A p \in Procs :
        TotalMismatch(p)
        => /\ resp[p].post.sess.active
           /\ resp[p].post.sess.total_chunks = resp[p].total_chunks
           /\ resp[p].post.sess.chunks_received = {resp[p].chunk_number}
           /\ resp[p].status = "ready_to_merge"
                <=> Cardinality(resp[p].post.sess.chunks_received)
                      = resp[p].post.sess.total_chunks

\* the chunk numbers a session of handler p's snapshot still lacks
MissingBefore(p) == (0..(resp[p].total_chunks - 1)) \ resp[p].pre.sess.chunks_received

\* two accepted chunk uploads, each started while the session lacked exactly
\* the two chunks they carry
LastTwoRace(p, q) ==
    /\ p # q /\ Done(p) /\ Done(q)
    /\ resp[p].op = "upload_chunk" /\ resp[q].op = "upload_chunk"
    /\ resp[p].code = 200 /\ resp[q].code = 200
    /\ resp[p].chunk_number # resp[q].chunk_number
    /\ resp[p].total_chunks = resp[q].total_chunks
    /\ resp[p].pre.sess.active /\ resp[q].pre.sess.active
    /\ resp[p].pre.sess.total_chunks = resp[p].total_chunks
    /\ resp[q].pre.sess.total_chunks = resp[q].total_chunks
    /\ MissingBefore(p) = {resp[p].chunk_number, resp[q].chunk_number}
    /\ MissingBefore(q) = {resp[p].chunk_number, resp[q].chunk_number}

\* C26: when two concurrent handlers upload the last two missing chunks of a
\* session, exactly one response reports ready_to_merge; the other reports
\* success with a smaller chunks_received.
C26_LastChunkRace ==
    \A p, q \in Procs :
        LastTwoRace(p, q)
        => \E a, b \in {p, q} :
              /\ a # b
              /\ resp[a].status = "ready_to_merge"
              /\ resp[b].status = "success"
              /\ resp[b].chunks_received < resp[a].chunks_received

\* handler p has merged the chunks and has not returned yet
InAssembly(p) == pc[p] \in {"c_create", "c_storage", "c_delete"}

\* the three effects of the assembly of handler p, read from the database
ArtifactCreated(p) == Len(fileTable) > loc[p].pre.nfiles
StorageCounted(p) == storage_used > loc[p].pre.used
ChunkRecordsDeleted(p) ==
    \A i \in 1..Len(loc[p].chunks) :
        ~\E r \in chunkRecords : r.id = loc[p].chunks[i].id

\* C27: the File row, the increment of storage_used and the deletion of the
\* chunk records of a complete take effect together: no state, which another
\* request could read or a failure could leave, has some of them without all.
C27_AssemblyAtomic ==
    \A p \in Procs :
        InAssembly(p)
        => /\ ArtifactCreated(p) <=> StorageCounted(p)
           /\ StorageCounted(p) <=> ChunkRecordsDeleted(p)

\* C28: every tracked session has received at most total_chunks chunk
\* numbers, and an accepted chunk upload reports ready_to_merge exactly when
\* the session then holds as many chunk numbers as its total_chunks.
C28_SessionInvariant ==
    /\ \A f \in Filenames :
          active_uploads[f].active
          => Cardinality(active_uploads[f].chunks_received) <= active_uploads[f].total_chunks
    /\ \A p \in Procs :
          (Done(p) /\ resp[p].op = "upload_chunk" /\ resp[p].code = 200)
          => (resp[p].status = "ready_to_merge"
                <=> Cardinality(resp[p].post.sess.chunks_received)
                      = resp[p].post.sess.total_chunks)

\* C29: when a chunk upload answers ready_to_merge, a chunk record and its
\* file exist at that moment for every chunk number 0..N-1 of the identity,
\* whatever the interleaving of the concurrent chunk uploads.
C29_ReadyMeansDurable ==
    \A p \in Procs :
        (Done(p) /\ resp[p].op = "upload_chunk" /\ resp[p].code = 200
         /\ resp[p].status = "ready_to_merge")
        => /\ 0..(resp[p].total_chunks - 1) \subseteq resp[p].post.recs
           /\ 0..(resp[p].total_chunks - 1) \subseteq resp[p].post.blobs

\* the sum of the sizes of the File rows
RECURSIVE SumSizes(_)
SumSizes(rows) == IF rows = <<>> THEN 0 ELSE Head(rows).size + SumSizes(Tail(rows))

\* no request handler and no transcode job is at work
Quiescent == AllIdle /\ video.pc \in {"none", "done"}

\* C30: whenever the completes, transcode swaps and deletions started so far
\* have all ended, storage_used is the sum of the sizes of the File rows.
C30_StorageAccounting == Quiescent => storage_used = SumSizes(fileTable)

\* the job has ended after the last encoder it tried failed
EncodeFailed == video.pc = "done" /\ ~video.success /\ video.encoders # <<>>

\* C22: when encoding fails, the temporary output is gone at the end of the job
\* and the artifact is as before the job: its file, its recorded path, size and
\* content type, and the storage-used counter of the owner.
C22_EncodeFailureLeavesArtifact ==
    EncodeFailed =>
        /\ ~mediaFiles[TempOutputPath(video.pre.row.name)].exists
        /\ fileTable = <<video.pre.row>>
        /\ mediaFiles[video.pre.row.path] = video.pre.original
        /\ video.pre.original.exists
        /\ storage_used = video.pre.used

\* the GPU encoder failed, then the CPU encoder failed
C22_Witness ==
    /\ EncodeFailed
    /\ video.encoders = <<"h264_nvenc", "libx264">>
    /\ video.pre.row.name = "a b.mov"

\* ------------------------------------- properties of the job with requests
\* C21: at every moment of a transcode job the recorded storage path of the
\* artifact names an existing file, and a stream request answered meanwhile is
\* served the complete original or the complete re-encoded file.
C21_SwapOrdering ==
    /\ (video.success /\ video.strategy \in {"gpu", "cpu"} =>
            mediaFiles[fileTable[1].path].exists)
    /\ (view.pc = "done" =>
            /\ view.status = 200
            /\ view.content_length = Len(view.body)
            /\ \/ view.body = OriginalBytes
               \/ \E n \in 1..MaxEncoded : view.body = EncodedBytes(n))

\* C23: the processing-status endpoint answers that processing is in flight
\* exactly when the transcode job of the artifact has started and not ended.
C23_ProcessingStatusInFlight ==
    processing.code # 0 =>
        /\ processing.code = 200
        /\ processing.processing <=> processing.in_flight

\* ------------------------------------------- properties of the upload service
\* C31: in every reachable state the storage_used counter of the owner is at
\* most the storage quota of the owner.
C31_QuotaInvariant == storage_used <= StorageQuota

\* C32: a session is tracked only while its identity has chunks on record:
\* once the sweep has reclaimed the chunk records of an identity no session is
\* left for it, and a status request does not report in_progress.
C32_SessionLifecycle ==
    /\ AllIdle => \A f \in Filenames : active_uploads[f].active => RecsOf(f) # {}
    /\ \A p \in Procs :
          (Done(p) /\ resp[p].op = "get_upload_status" /\ resp[p].pre.recs = {})
          => resp[p].status # "in_progress"

\* C33: an operation during which the removal of a chunk file failed still
\* succeeds and ends in the session and record state of an undisturbed one: no
\* session and no chunk record after a complete or a cancel, the session and
\* the record of the new chunk alone after a restart by chunk 0.
C33_CleanupFailureNonFatal ==
    \A p \in Procs :
        (Done(p) /\ resp[p].remove_failed)
        => /\ resp[p].code = 200
           /\ IF resp[p].op = "upload_chunk"
              THEN /\ resp[p].post.sess.active
                   /\ resp[p].post.sess.chunks_received = {resp[p].chunk_number}
                   /\ resp[p].post.recs = {resp[p].chunk_number}
              ELSE /\ ~resp[p].post.sess.active
                   /\ resp[p].post.recs = {}

\* the session, the chunk records and the chunk files of an identity
IdentityState(f) == <<active_uploads[f], RecsOf(f), [n \in Idx |-> chunkFiles[f, n]]>>

\* a step of a request handler that serves identity f
StepFor(f) ==
    /\ \E p \in Procs : (pc[p] # "idle" \/ pc'[p] # "idle") /\ req'[p].filename = f

\* C34: a step taken for one identity, the background cleanup it queued
\* included, leaves the session, the chunk records and the chunk files of
\* every other identity as they are.
C34_IdentityIsolation ==
    [][\A f \in Filenames : ~StepFor(f) => IdentityState(f)' = IdentityState(f)]_vars

\* C35: a successful complete does not take the storage path of an artifact
\* that exists already, and no two File rows have the same storage path.
C35_NoArtifactOverwrite ==
    /\ \A i, j \in 1..Len(fileTable) : i # j => fileTable[i].path # fileTable[j].path
    /\ \A p \in Procs :
          (Done(p) /\ resp[p].op = "complete_upload" /\ resp[p].code = 200)
          => \A i \in 1..resp[p].pre.nfiles : fileTable[i].path # resp[p].path

\* C36: an upload of an index other than 0 that arrives when the identity has
\* no session in memory while every other chunk is recorded, and that is
\* accepted, reports ready_to_merge and chunksReceived equal to totalChunks.
C36_ResumeAfterRestart ==
    \A p \in Procs :
        (/\ Done(p) /\ resp[p].op = "upload_chunk" /\ resp[p].code = 200
         /\ resp[p].chunk_number # 0
         /\ ~resp[p].pre.sess.active
         /\ resp[p].pre.total = resp[p].total_chunks
         /\ resp[p].pre.recs = (0..(resp[p].total_chunks - 1)) \ {resp[p].chunk_number})
        => /\ resp[p].status = "ready_to_merge"
           /\ resp[p].chunks_received = resp[p].total_chunks

\* C37: at most 2 jobs of the executor are taken and unfinished at any time,
\* and every other submitted job is finished or waits in the queue.
C37_BoundedEncodeConcurrency ==
    /\ Cardinality(Running) <= 2
    /\ \A j \in Submitted \ Running :
          \/ executor.jobs[j].pc = "done"
          \/ (/\ executor.jobs[j].pc = "queued"
              /\ \E i \in 1..Len(executor.queue) : executor.queue[i] = j)

\* three uploads are completed, two of their jobs run and the third waits
C37_Witness ==
    /\ Cardinality(Running) = 2
    /\ Cardinality(Submitted) = 3
    /\ Len(executor.queue) = 1

\* the jobs that have a temporary output path in use
Encoding == {j \in Running : executor.jobs[j].pc \in {"encode", "after", "rename"}}

\* C38: two jobs that run at the same time have different temporary output
\* paths, and no job that failed or raised has removed the temporary output
\* of another running job.
C38_JobIsolation ==
    /\ \A j, k \in Encoding : j # k => TempOf(j) # TempOf(k)
    /\ \A j \in 1..MaxJobs : ~executor.jobs[j].foreign

\* the job has left process_video
Encoded == video.pc \in {"after", "rename", "save", "storage", "done"}

\* the row and the file of the artifact after the swap
Swapped ==
    /\ Len(fileTable) = 1
    /\ fileTable[1].path = FinalPath(video.file_obj.name)
    /\ fileTable[1].content_type = "video/mp4"
    /\ fileTable[1].size = video.new_size
    /\ mediaFiles[fileTable[1].path].exists
    /\ mediaFiles[fileTable[1].path].data = EncodedBytes(video.new_size)
    /\ ~mediaFiles[TempOutputPath(video.file_obj.name)].exists

\* C39: a job that chose the gpu strategy leaves process_video without success
\* only after the GPU encode and then the CPU encode have both run and failed,
\* a failed GPU encode is followed by the CPU encode of the same job, and a
\* job whose GPU or CPU encode succeeded ends with the swap done.
C39_GpuToCpuFallback ==
    (video.strategy = "gpu" /\ video.encoders # <<>>)
    => /\ video.encoders \in {<<"h264_nvenc">>, <<"h264_nvenc", "libx264">>}
       /\ (video.encoders = <<"h264_nvenc">> /\ ~video.success) => video.pc = "cpu"
       /\ (Encoded /\ ~video.success) => video.encoders = <<"h264_nvenc", "libx264">>
       /\ (video.pc = "done" /\ video.success) => Swapped

\* the GPU encode failed, the CPU encode succeeded and the swap is done
C39_Witness ==
    /\ video.strategy = "gpu"
    /\ video.encoders = <<"h264_nvenc", "libx264">>
    /\ video.success
    /\ video.pc = "done"
    /\ Swapped

====
